---- MODULE Spec2Model ----
(***************************************************************************)
(* Audio gate, speech output queue and command dispatch of the Rose       *)
(* assistant (v30 refactored build and the modules it imports):           *)
(*   media_services.TTSService     the tts_playing flag and its runners    *)
(*   rose_v30_refactored.RoseHUD   the background listener callback        *)
(*   fast_tts.FastTTSService       the queue and its single worker         *)
(*   voice_commands.VoiceCommandManager   the registry and the dispatcher  *)
(***************************************************************************)
EXTENDS Integers, Sequences, FiniteSets, TLC

\* ------------------------------------------------------------------ bounds
\* runner threads of tts_service.speak that may be alive at once
MaxRunners == 2
\* word count of the longest spoken text (the shortest has one word)
MaxWords == 7
\* the clock stops advancing after this many milliseconds
MaxNow == 7500
\* one clock step, in milliseconds
TickMs == 2500
\* threads that call fast_tts.speak concurrently
MaxEnq == 2
\* fast_tts.speak calls made in one behaviour
MaxReq == 2
\* threads that call process_voice_input concurrently
MaxDisp == 2
\* process_voice_input calls made in one behaviour
MaxCalls == 2
\* add_command and add_custom_command calls made after construction
MaxAdds == 2
\* v14: _do threads of speak that may be alive at once
MaxSpeakers == 2
\* v14: speak calls made in one behaviour
MaxSpeaks == 2
\* v14: capture cycles the listener begins in one behaviour
MaxCycles == 2
\* v14: _toggle_mic calls made in one behaviour
MaxToggles == 1
\* candidate files in the plugin directories of one scan
MaxModules == 3
\* latencies recorded in one behaviour of the metrics buffer
MaxRecorded == 150
\* of these, the first few take any value of Samples; every later one is
\* its own ordinal, so that all later samples differ
MaxFree == 3
\* v30: toggle_voice_feature calls made in one behaviour
MaxVoiceToggles == 2
\* v30: phrases spoken to the background listeners in one behaviour
MaxPhrases == 1
\* PluginManager: calls of its loading and unloading methods
MaxManagerCalls == 4

\* ------------------------------------------------------- program constants
\* media_services.py:45  max(0.6, ...)
MinEstimateMs == 600
\* media_services.py:90  + 0.35
SettleMs == 350
\* fast_tts.py:90  > 5 (seconds), here in ms
StaleMs == 5000
\* voice_commands.py:236  len(self.response_times) > 100
RespCap == 100

VARIABLES
    now,            \* time.time(), in milliseconds
    edge_tts,       \* TTSService.edge_tts is not None
    tts_playing,    \* TTSService.tts_playing
    runner,         \* the _runner threads of TTSService.speak
    cb_pc,          \* position of the listener thread inside callback
    cb_last,        \* what the latest callback invocation saw and did
    handled,        \* handle_command threads started by the callback
    voice_queue,    \* FastTTSService.voice_queue (queue.Queue)
    is_speaking,    \* FastTTSService.is_speaking
    worker,         \* the _tts_worker thread: position and request in hand
    enq,            \* threads inside FastTTSService.speak
    next_id,        \* identity of the next request built by speak
    enq_order,      \* history: ids in the order voice_queue.put took them
    hist,           \* history: one entry per request the worker took
    commands,       \* VoiceCommandManager.commands, in insertion order
    custom_commands,\* VoiceCommandManager.custom_commands, in insertion order
    is_processing,  \* VoiceCommandManager.is_processing
    response_times, \* VoiceCommandManager.response_times
    disp,           \* threads inside process_voice_input
    n_adds,         \* registrations made after construction
    started,        \* history: handler threads started, in order
    returned,       \* history: how each process_voice_input call ended
    handler_fate,   \* the handler threads of started: running, done, raised
    recorded,       \* history: every sample given to _record_response_time
    plug,           \* a load_plugins scan: directory, position, result
    hud,            \* RoseHUD.__init__ of the v30 build: position, listener
    mic_lock,       \* v14: mic_lock, free or with its holder
    lis,            \* v14: the Listener thread: position, running, listening
    sp,             \* v14: the _do threads of speak
    player,         \* v14: speak threads whose mp3 an external player plays
    v14_calls,      \* v14: speak and _toggle_mic calls made so far
    hc,             \* v30: how handle_command went on after each dispatch
    imm,            \* the thread inside FastTTSService.speak_immediate
    attrs,          \* v30: the _handle_* attributes of voice_command_manager
    pm,             \* PluginManager: plugins, plugin_info, loaded_plugins
    bg              \* v30: enable_voice, the listen_in_background loops

gateVars == <<tts_playing, runner, cb_pc, cb_last, handled>>
fastVars == <<voice_queue, is_speaking, worker, enq, next_id, enq_order, hist>>
dispVars == <<commands, custom_commands, is_processing, response_times, disp,
              n_adds, started, returned, handler_fate, recorded>>
v14Vars == <<mic_lock, lis, sp, player, v14_calls>>
extVars == <<bg, hc, imm, attrs, pm>>
moreVars == <<plug, hud, v14Vars, extVars>>
vars == <<now, edge_tts, gateVars, fastVars, dispVars, moreVars>>

Runners == 1..MaxRunners

Max(a, b) == IF a >= b THEN a ELSE b

\* ------------------------------------------------------------ TTSService
\* _estimate_tts_duration: max(0.6, words / 2.8) seconds, here in ms
\* (words / 2.8 s = words * 10000 / 28 ms, rounded down to a millisecond)
_estimate_tts_duration(words) == Max(MinEstimateMs, (words * 10000) \div 28)

\* the argument of time.sleep in _runner's finally block
HoldMs(words) == _estimate_tts_duration(words) + SettleMs

is_available == edge_tts

\* a callback that never sees the gate closed
is_playing_never == FALSE

\* TTSService.is_playing
is_playing == tts_playing

NoRunner == [pc |-> "none", words |-> 0, wake |-> 0]

\* a request is inside its speaking span from the start of synthesis until
\* its time.sleep(estimate + 0.35) has returned
InSpan(r) == runner[r].pc \in {"synth", "play", "sleep"}

FreeRunner(r) ==
    /\ runner[r].pc = "none"
    /\ \A q \in Runners : q < r => runner[q].pc # "none"

\* TTSService.speak: returns at once; the work is done by a new thread
speak(r, words) ==
    /\ FreeRunner(r)
    /\ IF is_available
          THEN runner' = [runner EXCEPT ![r] =
                             [pc |-> "start", words |-> words, wake |-> 0]]
          ELSE UNCHANGED runner
    /\ UNCHANGED <<now, edge_tts, moreVars, tts_playing, cb_pc, cb_last, handled, fastVars, dispVars>>

\* _runner: with self.tts_lock: self.tts_playing = True
runner_set_playing(r) ==
    /\ runner[r].pc = "start"
    /\ tts_playing' = TRUE
    /\ runner' = [runner EXCEPT ![r].pc = "synth"]
    /\ UNCHANGED <<now, edge_tts, moreVars, cb_pc, cb_last, handled, fastVars, dispVars>>

\* _runner: asyncio.run(self._generate_tts(...)); an exception is handled
\* by the except clause and control reaches the finally block
runner_generate(r) ==
    /\ runner[r].pc = "synth"
    /\ \E ok \in BOOLEAN :
          runner' = [runner EXCEPT ![r] =
                        IF ok THEN [runner[r] EXCEPT !.pc = "play"]
                              ELSE [pc |-> "sleep", words |-> 0,
                                    wake |-> now + HoldMs(runner[r].words)]]
    /\ UNCHANGED <<now, edge_tts, moreVars, tts_playing, cb_pc, cb_last, handled, fastVars, dispVars>>

\* _runner: self._play_file_default("speech.mp3") (non-blocking Popen, its
\* own errors handled inside), then the finally block starts to sleep
runner_play(r) ==
    /\ runner[r].pc = "play"
    /\ runner' = [runner EXCEPT ![r] =
                     [pc |-> "sleep", words |-> 0,
                      wake |-> now + HoldMs(runner[r].words)]]
    /\ UNCHANGED <<now, edge_tts, moreVars, tts_playing, cb_pc, cb_last, handled, fastVars, dispVars>>

\* _runner: time.sleep(...) returns
runner_wake(r) ==
    /\ runner[r].pc = "sleep"
    /\ now >= runner[r].wake
    /\ runner' = [runner EXCEPT ![r] = [NoRunner EXCEPT !.pc = "clear"]]
    /\ UNCHANGED <<now, edge_tts, moreVars, tts_playing, cb_pc, cb_last, handled, fastVars, dispVars>>

\* _runner: with self.tts_lock: self.tts_playing = False; the thread ends
runner_clear(r) ==
    /\ runner[r].pc = "clear"
    /\ tts_playing' = FALSE
    /\ runner' = [runner EXCEPT ![r] = NoRunner]
    /\ UNCHANGED <<now, edge_tts, moreVars, cb_pc, cb_last, handled, fastVars, dispVars>>

\* ------------------------------------------------- RoseHUD listener callback
TtsOutput == \E r \in Runners : InSpan(r)

\* callback(recognizer, audio): if tts_service.is_playing(): return
callback_invoke ==
    /\ cb_pc = "idle"
    /\ LET saw == [tts |-> tts_playing, out_tts |-> TtsOutput,
                     out_fast |-> is_speaking] IN
          IF is_playing
             THEN /\ cb_pc' = "idle"
                  /\ cb_last' = [saw |-> saw, fate |-> "discarded"]
             ELSE /\ cb_pc' = "recognizing"
                  /\ cb_last' = [saw |-> saw, fate |-> "recognizing"]
    /\ UNCHANGED <<now, edge_tts, moreVars, tts_playing, runner, handled, fastVars, dispVars>>

\* callback: text = recognizer.recognize_google(audio); a non-blank text
\* starts threading.Thread(target=self.handle_command, args=(text,))
callback_recognize ==
    /\ cb_pc = "recognizing"
    /\ \E result \in {"text", "blank", "UnknownValueError", "Exception"} :
          IF result = "text"
             THEN /\ handled' = handled \cup
                        {[tts_at_invoke |-> cb_last.saw.tts,
                          tts_at_start |-> tts_playing]}
                  /\ cb_last' = [cb_last EXCEPT !.fate = "dispatched"]
             ELSE /\ handled' = handled
                  /\ cb_last' = [cb_last EXCEPT !.fate = "dropped"]
    /\ cb_pc' = "idle"
    /\ UNCHANGED <<now, edge_tts, moreVars, tts_playing, runner, fastVars, dispVars>>

\* --------------------------------------------------------- FastTTSService
Enqueuers == 1..MaxEnq

\* FastTTSService.is_available: set by the same "import edge_tts"
fast_is_available == edge_tts

NoReq == [id |-> 0, timestamp |-> 0, callback |-> FALSE]

\* queue.Queue.put and queue.Queue.get: first in, first out
queue_put(q, item) == Append(q, item)

\* a queue that hands out the newest item first
queue_get_lifo(q) == [item |-> q[Len(q)], rest |-> SubSeq(q, 1, Len(q) - 1)]

queue_get(q) == [item |-> Head(q), rest |-> Tail(q)]

\* a staleness test that also drops a request of exactly the limit age
is_stale_at_limit(age) == age >= StaleMs

\* _tts_worker: time.time() - request['timestamp'] > 5
is_stale(age) == age > StaleMs

\* where the worker goes when a stage of _process_tts_request fails:
\* _generate_audio and _play_audio handle their own exceptions and return,
\* an exception of callback() is handled by _process_tts_request
\* a worker whose thread ends with the exception
after_failure_dies(stage) == "dead"

\* a worker that skips the callback of a request whose stage failed
after_failure_skips_callback(stage) == "finish"

after_failure(stage) ==
    CASE stage = "generate" -> "callback"
      [] stage = "play"     -> "callback"
      [] stage = "callback" -> "finish"

\* history: the entry of the request the worker has in hand is the last one
Current(field, value) ==
    [hist EXCEPT ![Len(hist)] = [hist[Len(hist)] EXCEPT ![field] = value]]

Stage(stage, ok) ==
    IF ok THEN [hist EXCEPT ![Len(hist)].stages = Append(@, stage)]
          ELSE [hist EXCEPT ![Len(hist)].stages = Append(@, stage),
                            ![Len(hist)].failed = TRUE]

\* speak, first half: the request is built and stamped with time.time();
\* without edge_tts the text is printed and nothing is queued
fast_speak_build(e, cb) ==
    /\ enq[e].pc = "idle"
    /\ next_id <= MaxReq
    /\ IF fast_is_available
          THEN /\ enq' = [enq EXCEPT ![e] =
                             [pc |-> "built",
                              req |-> [id |-> next_id, timestamp |-> now,
                                       callback |-> cb]]]
               /\ next_id' = next_id + 1
          ELSE UNCHANGED <<enq, next_id>>
    /\ UNCHANGED <<now, edge_tts, moreVars, gateVars, dispVars, voice_queue, is_speaking, worker,
                   enq_order, hist>>

\* speak, second half: self.voice_queue.put(tts_request)
fast_speak_put(e) ==
    /\ enq[e].pc = "built"
    /\ voice_queue' = queue_put(voice_queue, enq[e].req)
    /\ enq_order' = Append(enq_order, enq[e].req.id)
    /\ enq' = [enq EXCEPT ![e] = [pc |-> "idle", req |-> NoReq]]
    /\ UNCHANGED <<now, edge_tts, moreVars, gateVars, dispVars, is_speaking, worker, next_id,
                   hist>>

\* _tts_worker: request = self.voice_queue.get(timeout=1)
\* (queue.Empty after the timeout only restarts the loop)
worker_get ==
    /\ worker.pc = "get"
    /\ voice_queue # <<>>
    /\ worker' = [pc |-> "check", req |-> queue_get(voice_queue).item]
    /\ voice_queue' = queue_get(voice_queue).rest
    /\ UNCHANGED <<now, edge_tts, moreVars, gateVars, dispVars, is_speaking, enq, next_id,
                   enq_order, hist>>

\* _tts_worker: the staleness test, then self.is_speaking = True
worker_check ==
    /\ worker.pc = "check"
    /\ LET age == now - worker.req.timestamp
           entry == [id |-> worker.req.id, late |-> age > StaleMs,
                     gate_before |-> is_speaking, stages |-> <<>>,
                     failed |-> FALSE, fate |-> "dropped"]
       IN  IF is_stale(age)
              THEN /\ worker' = [pc |-> "get", req |-> NoReq]
                   /\ hist' = Append(hist, entry)
                   /\ UNCHANGED is_speaking
              ELSE /\ worker' = [worker EXCEPT !.pc = "generate"]
                   /\ hist' = Append(hist, [entry EXCEPT !.fate = "speaking"])
                   /\ is_speaking' = TRUE
    /\ UNCHANGED <<now, edge_tts, moreVars, gateVars, dispVars, voice_queue, enq, next_id,
                   enq_order>>

\* _process_tts_request: audio_data = self._generate_audio(ssml);
\* None when synthesis failed
worker_generate ==
    /\ worker.pc = "generate"
    /\ \E ok \in BOOLEAN :
          /\ worker' = [worker EXCEPT
                           !.pc = IF ok THEN "play"
                                        ELSE after_failure("generate")]
          /\ hist' = Stage("generate", ok)
    /\ UNCHANGED <<now, edge_tts, moreVars, gateVars, dispVars, voice_queue, is_speaking, enq,
                   next_id, enq_order>>

\* _process_tts_request: if audio_data: self._play_audio(audio_data)
worker_play ==
    /\ worker.pc = "play"
    /\ \E ok \in BOOLEAN :
          /\ worker' = [worker EXCEPT
                           !.pc = IF ok THEN "callback"
                                        ELSE after_failure("play")]
          /\ hist' = Stage("play", ok)
    /\ UNCHANGED <<now, edge_tts, moreVars, gateVars, dispVars, voice_queue, is_speaking, enq,
                   next_id, enq_order>>

\* _process_tts_request: if callback: callback()
worker_callback ==
    /\ worker.pc = "callback"
    /\ IF worker.req.callback
          THEN \E ok \in BOOLEAN :
                  /\ worker' = [worker EXCEPT
                                   !.pc = IF ok THEN "finish"
                                          ELSE after_failure("callback")]
                  /\ hist' = Stage("callback", ok)
          ELSE /\ worker' = [worker EXCEPT !.pc = "finish"]
               /\ UNCHANGED hist
    /\ UNCHANGED <<now, edge_tts, moreVars, gateVars, dispVars, voice_queue, is_speaking, enq,
                   next_id, enq_order>>

\* _tts_worker: self.is_speaking = False; self.voice_queue.task_done()
worker_finish ==
    /\ worker.pc = "finish"
    /\ is_speaking' = FALSE
    /\ hist' = Current("fate", "done")
    /\ worker' = [pc |-> "get", req |-> NoReq]
    /\ UNCHANGED <<now, edge_tts, moreVars, gateVars, dispVars, voice_queue, enq, next_id,
                   enq_order>>

\* is_busy: self.is_speaking or not self.voice_queue.empty();
\* wait_until_done returns before its timeout when it reads False
is_busy == is_speaking \/ voice_queue # <<>>

\* _play_audio in two steps, for a caller that can act during playback:
\* pygame.mixer.music.play() has been called
worker_play_start ==
    /\ worker.pc = "play"
    /\ worker' = [worker EXCEPT !.pc = "playing"]
    /\ UNCHANGED <<now, edge_tts, moreVars, gateVars, dispVars, voice_queue,
                   is_speaking, enq, next_id, enq_order, hist>>

\* _play_audio: get_busy() is false (the sound ended or was stopped), or
\* an exception was handled
worker_play_end ==
    /\ worker.pc = "playing"
    /\ \E ok \in BOOLEAN :
          /\ worker' = [worker EXCEPT
                           !.pc = IF ok THEN "callback"
                                        ELSE after_failure("play")]
          /\ hist' = Stage("play", ok)
    /\ UNCHANGED <<now, edge_tts, moreVars, gateVars, dispVars, voice_queue,
                   is_speaking, enq, next_id, enq_order>>

\* no speak_immediate call yet
NoImmediate == [pc |-> "idle", before |-> {}, cleared |-> {}, stopped |-> 0,
                t |-> 0, mark |-> 0]

\* speak_immediate: without edge_tts the text is printed; otherwise
\* _clear_queue begins (before: the requests put so far, mark: the
\* requests the worker has taken so far)
speak_immediate ==
    /\ imm.pc = "idle"
    /\ next_id <= MaxReq
    /\ imm' = IF fast_is_available
                 THEN [imm EXCEPT !.pc = "clear",
                                  !.before = {enq_order[k] :
                                                k \in 1..Len(enq_order)}]
                 ELSE [imm EXCEPT !.pc = "printed"]
    /\ UNCHANGED <<now, edge_tts, attrs, pm, bg, hc, gateVars, fastVars, dispVars, plug,
                   hud, v14Vars>>

\* _clear_queue: one turn of while not self.voice_queue.empty():
\* get_nowait() and task_done(); the loop ends on an empty queue
_clear_queue ==
    /\ imm.pc = "clear"
    /\ IF voice_queue = <<>>
          THEN /\ imm' = [imm EXCEPT !.pc = "stop"]
               /\ UNCHANGED voice_queue
          ELSE /\ imm' = [imm EXCEPT !.cleared =
                             @ \cup {queue_get(voice_queue).item.id}]
               /\ voice_queue' = queue_get(voice_queue).rest
    /\ UNCHANGED <<now, edge_tts, attrs, pm, bg, hc, gateVars, dispVars, plug, hud,
                   v14Vars, is_speaking, worker, enq, next_id, enq_order,
                   hist>>

\* _stop_current_speech: pygame.mixer.music.stop() ends the sound that is
\* playing, if any; the worker and the request it holds are not touched
_stop_current_speech ==
    /\ imm.pc = "stop"
    /\ imm' = [imm EXCEPT !.pc = "speak",
                          !.stopped = IF worker.pc = "playing"
                                         THEN worker.req.id ELSE 0]
    /\ UNCHANGED <<now, edge_tts, attrs, pm, bg, hc, gateVars, fastVars, dispVars, plug,
                   hud, v14Vars>>

\* speak_immediate: self.speak(text, voice) queues the new request (no
\* callback) and speak_immediate returns
immediate_speak ==
    /\ imm.pc = "speak"
    /\ voice_queue' = queue_put(voice_queue,
                                [id |-> next_id, timestamp |-> now,
                                 callback |-> FALSE])
    /\ enq_order' = Append(enq_order, next_id)
    /\ next_id' = next_id + 1
    /\ imm' = [imm EXCEPT !.pc = "returned", !.t = next_id,
                          !.mark = Len(hist)]
    /\ UNCHANGED <<now, edge_tts, attrs, pm, bg, hc, gateVars, dispVars, plug, hud,
                   v14Vars, is_speaking, worker, enq, hist>>

\* ------------------------------------------------- VoiceCommandManager
\* String operations work on sequences of one-character strings, so that
\* splitting, stripping, case folding and substring search are computed.
Dispatchers == 1..MaxDisp

\* the characters of every string in use (a TLA+ string is atomic)
Chars ==
    ("close|exit|quit|shutdown" :>
        <<"c", "l", "o", "s", "e", "|", "e", "x", "i", "t", "|", "q", "u", "i", "t", "|", "s", "h", "u", "t", "d", "o", "w", "n">>) @@
    ("minimize|min|hide" :>
        <<"m", "i", "n", "i", "m", "i", "z", "e", "|", "m", "i", "n", "|", "h", "i", "d", "e">>) @@
    ("maximize|max|fullscreen" :>
        <<"m", "a", "x", "i", "m", "i", "z", "e", "|", "m", "a", "x", "|", "f", "u", "l", "l", "s", "c", "r", "e", "e", "n">>) @@
    ("play music|start music|music" :>
        <<"p", "l", "a", "y", " ", "m", "u", "s", "i", "c", "|", "s", "t", "a", "r", "t", " ", "m", "u", "s", "i", "c", "|", "m", "u", "s", "i", "c">>) @@
    ("stop music|pause music|stop" :>
        <<"s", "t", "o", "p", " ", "m", "u", "s", "i", "c", "|", "p", "a", "u", "s", "e", " ", "m", "u", "s", "i", "c", "|", "s", "t", "o", "p">>) @@
    ("volume up|louder|increase volume" :>
        <<"v", "o", "l", "u", "m", "e", " ", "u", "p", "|", "l", "o", "u", "d", "e", "r", "|", "i", "n", "c", "r", "e", "a", "s", "e", " ", "v", "o", "l", "u", "m", "e">>) @@
    ("volume down|quieter|decrease volume" :>
        <<"v", "o", "l", "u", "m", "e", " ", "d", "o", "w", "n", "|", "q", "u", "i", "e", "t", "e", "r", "|", "d", "e", "c", "r", "e", "a", "s", "e", " ", "v", "o", "l", "u", "m", "e">>) @@
    ("hello|hi|hey|greetings" :>
        <<"h", "e", "l", "l", "o", "|", "h", "i", "|", "h", "e", "y", "|", "g", "r", "e", "e", "t", "i", "n", "g", "s">>) @@
    ("what time|current time|time" :>
        <<"w", "h", "a", "t", " ", "t", "i", "m", "e", "|", "c", "u", "r", "r", "e", "n", "t", " ", "t", "i", "m", "e", "|", "t", "i", "m", "e">>) @@
    ("what date|current date|date" :>
        <<"w", "h", "a", "t", " ", "d", "a", "t", "e", "|", "c", "u", "r", "r", "e", "n", "t", " ", "d", "a", "t", "e", "|", "d", "a", "t", "e">>) @@
    ("help|commands|what can you do" :>
        <<"h", "e", "l", "p", "|", "c", "o", "m", "m", "a", "n", "d", "s", "|", "w", "h", "a", "t", " ", "c", "a", "n", " ", "y", "o", "u", " ", "d", "o">>) @@
    ("list commands|show commands" :>
        <<"l", "i", "s", "t", " ", "c", "o", "m", "m", "a", "n", "d", "s", "|", "s", "h", "o", "w", " ", "c", "o", "m", "m", "a", "n", "d", "s">>) @@
    ("music" :>
        <<"m", "u", "s", "i", "c">>) @@
    ("Hello|stop" :>
        <<"H", "e", "l", "l", "o", "|", "s", "t", "o", "p">>) @@
    ("(" :>
        <<"(">>) @@
    ("stop music" :>
        <<"s", "t", "o", "p", " ", "m", "u", "s", "i", "c">>) @@
    (" Hello " :>
        <<" ", "H", "e", "l", "l", "o", " ">>) @@
    ("example|test|demo" :>
        <<"e", "x", "a", "m", "p", "l", "e", "|", "t", "e", "s", "t", "|", "d", "e", "m", "o">>) @@
    ("change theme|switch theme|new theme" :>
        <<"c", "h", "a", "n", "g", "e", " ", "t", "h", "e", "m", "e", "|", "s", "w", "i", "t", "c", "h", " ", "t", "h", "e", "m", "e", "|", "n", "e", "w", " ", "t", "h", "e", "m", "e">>) @@
    ("fast response|quick response|speed up" :>
        <<"f", "a", "s", "t", " ", "r", "e", "s", "p", "o", "n", "s", "e", "|", "q", "u", "i", "c", "k", " ", "r", "e", "s", "p", "o", "n", "s", "e", "|", "s", "p", "e", "e", "d", " ", "u", "p">>) @@
    ("demo" :>
        <<"d", "e", "m", "o">>) @@
    ("help" :>
        <<"h", "e", "l", "p">>) @@
    ("xyz" :>
        <<"x", "y", "z">>)

UpperToLower ==
    ("A" :> "a") @@ ("B" :> "b") @@ ("C" :> "c") @@ ("D" :> "d") @@
    ("E" :> "e") @@ ("F" :> "f") @@ ("G" :> "g") @@ ("H" :> "h") @@
    ("I" :> "i") @@ ("J" :> "j") @@ ("K" :> "k") @@ ("L" :> "l") @@
    ("M" :> "m") @@ ("N" :> "n") @@ ("O" :> "o") @@ ("P" :> "p") @@
    ("Q" :> "q") @@ ("R" :> "r") @@ ("S" :> "s") @@ ("T" :> "t") @@
    ("U" :> "u") @@ ("V" :> "v") @@ ("W" :> "w") @@ ("X" :> "x") @@
    ("Y" :> "y") @@ ("Z" :> "z")

\* str.lower, one character
lower_char(c) == IF c \in DOMAIN UpperToLower THEN UpperToLower[c] ELSE c

\* str.lower
lower(s) == [i \in DOMAIN s |-> lower_char(s[i])]

\* str.strip: leading and trailing blanks removed
strip(s) ==
    LET solid == {i \in DOMAIN s : s[i] # " "} IN
       IF solid = {} THEN <<>>
       ELSE SubSeq(s, CHOOSE i \in solid : \A j \in solid : i <= j,
                      CHOOSE i \in solid : \A j \in solid : i >= j)

\* str.split('|')
RECURSIVE split(_)
split(s) ==
    LET bars == {i \in DOMAIN s : s[i] = "|"} IN
       IF bars = {} THEN <<s>>
       ELSE LET k == CHOOSE i \in bars : \A j \in bars : i <= j IN
               <<SubSeq(s, 1, k - 1)>> \o split(SubSeq(s, k + 1, Len(s)))

\* re.compile fails (re.error) on a group that is opened and never closed;
\* every other character of the patterns in use is a literal
re_error(p) ==
    \E i \in DOMAIN p : p[i] = "(" /\ \A j \in DOMAIN p : j > i => p[j] # ")"

\* re.search(p, text, re.IGNORECASE) for a pattern of literals
re_search(p, text) ==
    IF re_error(p) THEN "error"
    ELSE IF \E k \in 0..(Len(text) - Len(p)) :
               \A i \in 1..Len(p) : lower_char(p[i]) = lower_char(text[k + i])
         THEN "match"
         ELSE "none"

\* _match_pattern: the alternatives are tried from left to right
RECURSIVE match_alternatives(_, _)
match_alternatives(alts, text) ==
    IF alts = <<>> THEN "False"
    ELSE LET r == re_search(strip(Head(alts)), text) IN
            IF r = "match" THEN "True"
            ELSE IF r = "error" THEN "raise"
            ELSE match_alternatives(Tail(alts), text)

\* _match_pattern, computed once for every string in use against every
\* normalised utterance in use
MatchTable ==
    [p \in DOMAIN Chars, t \in {strip(lower(Chars[u])) : u \in DOMAIN Chars}
        |-> match_alternatives(split(Chars[p]), t)]

_match_pattern(pattern, text) == MatchTable[pattern, text]

\* the for loops of process_voice_input over dict.items(): entries in
\* insertion order, the first match ends the loop, re.error leaves it
RECURSIVE scan_from(_, _, _)
scan_from(reg, text, i) ==
    IF i > Len(reg) THEN [kind |-> "miss", index |-> 0]
    ELSE LET m == _match_pattern(reg[i].pattern, text) IN
            IF m = "True" THEN [kind |-> "hit", index |-> i]
            ELSE IF m = "raise" THEN [kind |-> "raise", index |-> i]
            ELSE scan_from(reg, text, i + 1)

\* a scan that lets the matching entries of highest priority go first
scan_by_priority(reg, text) ==
    LET hits == {i \in 1..Len(reg) :
                    _match_pattern(reg[i].pattern, text) = "True"}
        high == {i \in hits : reg[i].priority = "HIGH"}
        pick(S) == CHOOSE i \in S : \A j \in S : i <= j
    IN  IF high # {} THEN [kind |-> "hit", index |-> pick(high)]
        ELSE scan_from(reg, text, 1)

scan(reg, text) == scan_from(reg, text, 1)

\* process_voice_input: custom_commands first, then commands
lookup(custom, builtin, text) ==
    LET c == scan(custom, text) IN
       IF c.kind = "hit" THEN [class |-> "custom", kind |-> "hit",
                               index |-> c.index]
       ELSE IF c.kind = "raise" THEN [class |-> "custom", kind |-> "raise",
                                      index |-> c.index]
       ELSE LET b == scan(builtin, text) IN
               [class |-> "builtin", kind |-> b.kind, index |-> b.index]

\* self.commands[pattern] = command: a new key is appended, an existing key
\* keeps its place and gets the new value
dict_set(reg, entry) ==
    IF \E i \in 1..Len(reg) : reg[i].pattern = entry.pattern
       THEN [i \in 1..Len(reg) |->
                IF reg[i].pattern = entry.pattern THEN entry ELSE reg[i]]
       ELSE Append(reg, entry)

\* a buffer that stops taking samples when it is full
_record_response_time_keep_first(times, sample) ==
    IF Len(times) >= RespCap THEN times ELSE Append(times, sample)

\* _record_response_time: append, keep the last 100
_record_response_time(times, sample) ==
    LET all == Append(times, sample) IN
       IF Len(all) > RespCap
          THEN SubSeq(all, Len(all) - RespCap + 1, Len(all))
          ELSE all

RECURSIVE sum(_)
sum(times) == IF times = <<>> THEN 0 ELSE Head(times) + sum(Tail(times))

\* get_average_response_time: 0.0 for an empty buffer, else sum / len;
\* the quotient is kept as a fraction
get_average_response_time(times) ==
    IF times = <<>> THEN [num |-> 0, den |-> 1]
    ELSE [num |-> sum(times), den |-> Len(times)]

\* latencies in milliseconds
Samples == {0, 40}

\* _setup_default_commands: the twelve built-in entries, in order
DefaultCommands == <<
    [pattern |-> "close|exit|quit|shutdown",
     handler |-> "_handle_system_command", priority |-> "HIGH"],
    [pattern |-> "minimize|min|hide",
     handler |-> "_handle_minimize", priority |-> "HIGH"],
    [pattern |-> "maximize|max|fullscreen",
     handler |-> "_handle_maximize", priority |-> "HIGH"],
    [pattern |-> "play music|start music|music",
     handler |-> "_handle_play_music", priority |-> "NORMAL"],
    [pattern |-> "stop music|pause music|stop",
     handler |-> "_handle_stop_music", priority |-> "NORMAL"],
    [pattern |-> "volume up|louder|increase volume",
     handler |-> "_handle_volume_up", priority |-> "NORMAL"],
    [pattern |-> "volume down|quieter|decrease volume",
     handler |-> "_handle_volume_down", priority |-> "NORMAL"],
    [pattern |-> "hello|hi|hey|greetings",
     handler |-> "_handle_greeting", priority |-> "NORMAL"],
    [pattern |-> "what time|current time|time",
     handler |-> "_handle_time", priority |-> "NORMAL"],
    [pattern |-> "what date|current date|date",
     handler |-> "_handle_date", priority |-> "NORMAL"],
    [pattern |-> "help|commands|what can you do",
     handler |-> "_handle_help", priority |-> "LOW"],
    [pattern |-> "list commands|show commands",
     handler |-> "_handle_list_commands", priority |-> "LOW"]
>>

\* utterances handed to process_voice_input
TextPool == {"stop music", " Hello ", "xyz"}

\* registrations made at run time: pattern, handler, priority;
\* the pattern "(" is not a valid regex
Registrations == {
    <<"music", "handler_a", "NORMAL">>,
    <<"music", "handler_b", "HIGH">>,
    <<"Hello|stop", "handler_b", "HIGH">>,
    <<"(", "handler_a", "NORMAL">>
}

NoCall == [pc |-> "idle", text |-> "", start_time |-> 0]

\* add_command
add_command(pattern, handler, priority) ==
    /\ n_adds < MaxAdds
    /\ n_adds' = n_adds + 1
    /\ commands' = dict_set(commands, [pattern |-> pattern,
                                       handler |-> handler,
                                       priority |-> priority])
    /\ UNCHANGED <<now, edge_tts, moreVars, gateVars, fastVars, custom_commands,
                   is_processing, response_times, disp, started, returned,
                   handler_fate, recorded>>

\* add_custom_command
add_custom_command(pattern, handler, priority) ==
    /\ n_adds < MaxAdds
    /\ n_adds' = n_adds + 1
    /\ custom_commands' = dict_set(custom_commands, [pattern |-> pattern,
                                                     handler |-> handler,
                                                     priority |-> priority])
    /\ UNCHANGED <<now, edge_tts, moreVars, gateVars, fastVars, commands,
                   is_processing, response_times, disp, started, returned,
                   handler_fate, recorded>>

CallsBegun == Len(returned) + Cardinality({t \in Dispatchers :
                                              disp[t].pc # "idle"})

\* process_voice_input: if self.is_processing: return False
pvi_check(t, text) ==
    /\ disp[t].pc = "idle"
    /\ CallsBegun < MaxCalls
    /\ IF is_processing
          THEN /\ returned' = Append(returned, [text |-> text,
                                                value |-> "False",
                                                why |-> "rejected"])
               /\ UNCHANGED disp
          ELSE /\ disp' = [disp EXCEPT ![t] = [NoCall EXCEPT !.pc = "set",
                                                             !.text = text]]
               /\ UNCHANGED returned
    /\ UNCHANGED <<now, edge_tts, moreVars, gateVars, fastVars, commands,
                   custom_commands, is_processing, response_times, n_adds,
                   started, handler_fate, recorded>>

\* process_voice_input: start_time = time.time(); self.is_processing = True
pvi_set(t) ==
    /\ disp[t].pc = "set"
    /\ is_processing' = TRUE
    /\ disp' = [disp EXCEPT ![t].pc = "scan", ![t].start_time = now]
    /\ UNCHANGED <<now, edge_tts, moreVars, gateVars, fastVars, commands,
                   custom_commands, response_times, n_adds, started,
                   returned, handler_fate, recorded>>

\* how the try block of the call of thread t ends: hit, miss or raise
found_kind(t) ==
    lookup(custom_commands, commands, strip(lower(Chars[disp[t].text]))).kind

\* a call whose guard is cleared only on the paths that return
is_processing_no_finally(kind) == kind = "raise"

\* process_voice_input: finally: self.is_processing = False, on every path
finally_is_processing(kind) == FALSE

\* process_voice_input: the try block (normalise, scan, _execute_command,
\* _record_response_time) and the finally block
pvi_scan(t) ==
    /\ disp[t].pc = "scan"
    /\ LET text == strip(lower(Chars[disp[t].text]))
           found == lookup(custom_commands, commands, text)
           end(value, why) == Append(returned, [text |-> disp[t].text,
                                                value |-> value,
                                                why |-> why])
       IN  CASE found.kind = "hit" ->
                  LET reg == IF found.class = "custom" THEN custom_commands
                                                       ELSE commands
                      command == reg[found.index]
                  IN  \* _execute_command: Thread(...).start(); an
                      \* exception of it is printed and swallowed
                      \E can_start \in BOOLEAN :
                         /\ started' =
                               IF can_start
                                  THEN Append(started,
                                              [class |-> found.class,
                                               pattern |-> command.pattern,
                                               handler |-> command.handler])
                                  ELSE started
                         /\ handler_fate' =
                               IF can_start THEN Append(handler_fate, "running")
                                            ELSE handler_fate
                         /\ response_times' = _record_response_time(
                               response_times, now - disp[t].start_time)
                         /\ recorded' = Append(recorded,
                                                now - disp[t].start_time)
                         /\ returned' = end("True",
                                            IF can_start THEN "started"
                                                         ELSE "thread error")
             [] found.kind = "miss" ->
                  /\ returned' = end("False", "no match")
                  /\ UNCHANGED <<started, response_times, handler_fate,
                                 recorded>>
             [] found.kind = "raise" ->
                  /\ returned' = end("raise", "re.error")
                  /\ UNCHANGED <<started, response_times, handler_fate,
                                 recorded>>
    /\ is_processing' = finally_is_processing(found_kind(t))
    /\ disp' = [disp EXCEPT ![t] = NoCall]
    /\ UNCHANGED <<now, edge_tts, moreVars, gateVars, fastVars, commands,
                   custom_commands, n_adds>>

\* the thread started by _execute_command runs command.handler(text); it
\* returns or raises on its own, after process_voice_input has returned
handler_thread(i) ==
    /\ handler_fate[i] = "running"
    /\ \E ok \in BOOLEAN :
          handler_fate' = [handler_fate EXCEPT
                              ![i] = IF ok THEN "done" ELSE "raised"]
    /\ UNCHANGED <<now, edge_tts, moreVars, gateVars, fastVars, commands,
                   custom_commands, is_processing, response_times, disp,
                   n_adds, started, returned, recorded>>

\* _record_response_time(start_time) with time.time() - start_time = sample
record_response_time(sample) ==
    /\ Len(recorded) < MaxRecorded
    /\ IF Len(recorded) < MaxFree THEN sample \in Samples
                                  ELSE sample = Len(recorded) + 1
    /\ response_times' = _record_response_time(response_times, sample)
    /\ recorded' = Append(recorded, sample)
    /\ UNCHANGED <<now, edge_tts, moreVars, gateVars, fastVars, commands,
                   custom_commands, is_processing, disp, n_adds, started,
                   returned, handler_fate>>

\* ------------------------------------------------------------ plugin loading
\* what a candidate file of the plugin directory is
\*   not_py           a name the scan passes over
\*   import_raises    exec_module raises
\*   no_register      v14: the module has no callable register
\*   register_raises  v14: mod.register(api) raises
\*   no_class         PluginManager: no PluginInterface subclass in the module
\*   ctor_raises      PluginManager: plugin_class() or get_info() raises
\*   unavailable      PluginManager: is_available() returns False
\*   init_false       PluginManager: initialize() returns False
\*   init_raises      PluginManager: initialize() raises
\*   good, good_voice, good_other   loads; good_voice is a VoiceCommandPlugin
V14Kinds == {"not_py", "import_raises", "no_register", "register_raises",
             "good"}

ManagerKinds == {"not_py", "import_raises", "no_class", "ctor_raises",
                 "unavailable", "init_false", "init_raises", "good_voice",
                 "good_other"}

RECURSIVE SeqsUpTo(_, _)
SeqsUpTo(S, n) ==
    IF n = 0 THEN {<<>>}
    ELSE LET shorter == SeqsUpTo(S, n - 1) IN
            shorter \cup {Append(d, k) : d \in shorter, k \in S}

\* a scan without the except clause: the exception leaves load_plugins
except_clause_missing == "propagates"

\* except Exception as e: print(...); the loop goes on
except_clause == "skipped"

\* rose_v14_jarvis.load_plugins: the body of the for loop, for one file
v14_load_file(kind) ==
    CASE kind = "not_py"          -> "ignored"
      [] kind = "import_raises"   -> except_clause
      [] kind = "no_register"     -> "skipped"
      [] kind = "register_raises" -> except_clause
      [] kind = "good"            -> "loaded"

\* PluginManager.load_plugins and load_plugin, for one file
load_plugin(kind) ==
    CASE kind = "not_py"        -> "ignored"
      [] kind = "import_raises" -> except_clause
      [] kind = "no_class"      -> "skipped"
      [] kind = "ctor_raises"   -> except_clause
      [] kind = "unavailable"   -> "skipped"
      [] kind = "init_false"    -> "skipped"
      [] kind = "init_raises"   -> except_clause
      [] kind = "good_voice"    -> "loaded"
      [] kind = "good_other"    -> "loaded"

NoScan == [phase |-> "idle", loader |-> "none", dir |-> <<>>, i |-> 0,
           attempted |-> {}, loaded |-> <<>>]

\* load_plugins: os.listdir gives the candidate files
plugin_listdir(loader, dir) ==
    /\ plug.phase = "idle"
    /\ plug' = [phase |-> "scanning", loader |-> loader, dir |-> dir,
                i |-> 1, attempted |-> {}, loaded |-> <<>>]
    /\ UNCHANGED <<now, edge_tts, extVars, gateVars, fastVars, dispVars, hud, v14Vars>>

\* load_plugins: one turn of the for loop
plugin_load_next ==
    /\ plug.phase = "scanning"
    /\ plug.i <= Len(plug.dir)
    /\ LET kind == plug.dir[plug.i]
           outcome == IF plug.loader = "v14" THEN v14_load_file(kind)
                                             ELSE load_plugin(kind)
       IN  plug' =
              IF outcome = "propagates"
                 THEN [plug EXCEPT !.phase = "raised"]
                 ELSE [plug EXCEPT
                          !.i = @ + 1,
                          !.attempted = IF outcome = "ignored" THEN @
                                        ELSE @ \cup {plug.i},
                          !.loaded = IF outcome = "loaded"
                                        THEN Append(@, plug.i) ELSE @]
    /\ UNCHANGED <<now, edge_tts, extVars, gateVars, fastVars, dispVars, hud, v14Vars>>

\* load_plugins: the loop is over, the function returns
plugin_scan_end ==
    /\ plug.phase = "scanning"
    /\ plug.i > Len(plug.dir)
    /\ plug' = [plug EXCEPT !.phase = "done"]
    /\ UNCHANGED <<now, edge_tts, extVars, gateVars, fastVars, dispVars, hud, v14Vars>>

\* ------------------------------------------- PluginManager: bookkeeping
\* load_plugin, the three assignments after a successful initialize():
\* two dict stores and a list append
_register(p, name) ==
    [p EXCEPT !.plugins = @ \cup {name},
              !.plugin_info = @ \cup {name},
              !.loaded_plugins = Append(@, name)]

\* list.remove(x): the first occurrence goes
RECURSIVE list_remove(_, _)
list_remove(list, x) ==
    IF list = <<>> THEN <<>>
    ELSE IF Head(list) = x THEN Tail(list)
    ELSE <<Head(list)>> \o list_remove(Tail(list), x)

\* load_plugins: load_plugin(name, directory) for every candidate file of
\* "plugins" and then of "extensions"
RECURSIVE _load_files(_, _)
_load_files(p, files) ==
    IF files = <<>> THEN p
    ELSE _load_files(IF load_plugin(Head(files)[2]) = "loaded"
                        THEN _register(p, Head(files)[1]) ELSE p,
                     Tail(files))

\* the candidate files of the two directories at a load_plugins call:
\* name and kind (the same file name may be in both directories)
ManagerDirs == {<<<<"a", "good_voice">>>>,
                <<<<"a", "good_voice">>, <<"b", "init_false">>>>,
                <<<<"b", "good_other">>>>,
                <<<<"a", "good_voice">>, <<"a", "good_other">>>>}

manager_load_plugins(files) ==
    /\ pm.calls < MaxManagerCalls
    /\ pm' = [_load_files(pm, files) EXCEPT !.calls = pm.calls + 1]
    /\ UNCHANGED <<now, edge_tts, bg, hc, imm, attrs, gateVars, fastVars,
                   dispVars, plug, hud, v14Vars>>

\* load_plugin(plugin_name) called by name
manager_load_plugin(name, kind) ==
    /\ pm.calls < MaxManagerCalls
    /\ pm' = [_load_files(pm, <<(<<name, kind>>)>>) EXCEPT
                 !.calls = pm.calls + 1]
    /\ UNCHANGED <<now, edge_tts, bg, hc, imm, attrs, gateVars, fastVars,
                   dispVars, plug, hud, v14Vars>>

\* unload_plugin: for a key of plugins, cleanup(), then the deletions; an
\* exception of cleanup() leaves everything in place
unload_plugin(name, cleanup_ok) ==
    /\ pm.calls < MaxManagerCalls
    /\ pm' = IF name \in pm.plugins /\ cleanup_ok
                THEN [pm EXCEPT !.plugins = @ \ {name},
                                !.plugin_info = @ \ {name},
                                !.loaded_plugins = list_remove(@, name),
                                !.calls = @ + 1]
                ELSE [pm EXCEPT !.calls = @ + 1]
    /\ UNCHANGED <<now, edge_tts, bg, hc, imm, attrs, gateVars, fastVars,
                   dispVars, plug, hud, v14Vars>>

\* cleanup_all: cleanup() of every plugin (exceptions printed), then the
\* three containers are cleared
cleanup_all ==
    /\ pm.calls < MaxManagerCalls
    /\ pm' = [plugins |-> {}, plugin_info |-> {}, loaded_plugins |-> <<>>,
              calls |-> pm.calls + 1]
    /\ UNCHANGED <<now, edge_tts, bg, hc, imm, attrs, gateVars, fastVars,
                   dispVars, plug, hud, v14Vars>>

\* ------------------------------------------------- RoseHUD.__init__ (v30)
\* the voice command of ExampleVoiceCommandPlugin, the plugin template:
\* get_command_patterns and get_commands
PluginCommand == [pattern |-> "example|test|demo",
                  handler |-> "_handle_example", priority |-> "NORMAL"]

\* the module globals of the v30 build before start_services: no
\* listen_in_background thread, BG_LISTENER_STOP = None
NoListeners == [enable_voice |-> FALSE, loops |-> 0, stop |-> 0,
                toggles |-> 0, phrases |-> 0, pending |-> {}, handed |-> 0]

\* _start_background_listener (SPEECH_AVAILABLE): listen_in_background
\* starts one more listener thread and BG_LISTENER_STOP is rebound to its
\* stopper; the thread BG_LISTENER_STOP named before is not stopped
_start_background_listener(b) ==
    [b EXCEPT !.loops = b.loops + 1, !.stop = b.loops + 1]

\* __init__: self.start_services(): the background listener is started when
\* voice is enabled and speech recognition is available
hud_start_services ==
    /\ hud.pc = "new"
    /\ \E voice \in BOOLEAN :
          /\ hud' = [pc |-> "setup_voice_commands", listener |-> voice]
          /\ bg' = IF voice
                      THEN _start_background_listener(
                               [bg EXCEPT !.enable_voice = TRUE])
                      ELSE [bg EXCEPT !.enable_voice = FALSE]
    /\ UNCHANGED <<now, edge_tts, attrs, pm, hc, imm, gateVars, fastVars, dispVars, plug, v14Vars>>

\* _setup_voice_commands: what it assigns to the attributes of
\* voice_command_manager; before, each attribute is the method of its name
_setup_voice_commands ==
    ("_handle_system_command" :> "close_application") @@
    ("_handle_minimize" :> "minimize_animated") @@
    ("_handle_maximize" :> "toggle_max_restore") @@
    ("_handle_play_music" :> "handle_command play music") @@
    ("_handle_stop_music" :> "handle_command stop music") @@
    ("_handle_volume_up" :> "handle_command volume up") @@
    ("_handle_volume_down" :> "handle_command volume down")

\* _setup_voice_commands: the _handle_* attributes of the manager are
\* reassigned (the registry keeps the handlers it was built with), then the
\* first add_custom_command
hud_add_theme_command ==
    /\ hud.pc = "setup_voice_commands"
    /\ hud' = [hud EXCEPT !.pc = "setup_voice_commands_2"]
    /\ attrs' = _setup_voice_commands
    /\ custom_commands' =
          dict_set(custom_commands,
                   [pattern |-> "change theme|switch theme|new theme",
                    handler |-> "_handle_theme_change",
                    priority |-> "NORMAL"])
    /\ UNCHANGED <<now, edge_tts, bg, hc, imm, pm, gateVars, fastVars, commands, is_processing,
                   response_times, disp, n_adds, started, returned,
                   handler_fate, recorded, plug, v14Vars>>

\* _setup_voice_commands: the second add_custom_command
hud_add_speed_command ==
    /\ hud.pc = "setup_voice_commands_2"
    /\ hud' = [hud EXCEPT !.pc = "load_plugins"]
    /\ custom_commands' =
          dict_set(custom_commands,
                   [pattern |-> "fast response|quick response|speed up",
                    handler |-> "_handle_speed_up",
                    priority |-> "NORMAL"])
    /\ UNCHANGED <<now, edge_tts, extVars, gateVars, fastVars, commands, is_processing,
                   response_times, disp, n_adds, started, returned,
                   handler_fate, recorded, plug, v14Vars>>

\* __init__: plugin_count = plugin_manager.load_plugins() begins
hud_load_plugins(dir) ==
    /\ hud.pc = "load_plugins"
    /\ plugin_listdir("manager", dir)

\* __init__: load_plugins has returned; the optimizer and the welcome
\* messages follow, nothing reads the plugins' commands
hud_init_done ==
    /\ hud.pc = "load_plugins"
    /\ plug.phase = "done"
    /\ hud' = [hud EXCEPT !.pc = "done"]
    /\ UNCHANGED <<now, edge_tts, extVars, gateVars, fastVars, dispVars, plug, v14Vars>>

\* the listener callback's handle_command thread reaches
\* voice_command_manager.process_voice_input
listener_process_voice_input(t, text) ==
    /\ hud.listener
    /\ pvi_check(t, text)

\* toggle_voice_feature (the menu's "Toggle Voice", after __init__):
\* config_manager.toggle_feature("voice"), the response is spoken by
\* tts_service.speak, and the listener is started when voice is now enabled;
\* nothing is stopped when voice is now disabled
toggle_voice_feature ==
    /\ hud.pc = "done"
    /\ bg.toggles < MaxVoiceToggles
    /\ LET current_state == ~bg.enable_voice
           toggled == [bg EXCEPT !.enable_voice = current_state,
                                 !.toggles = bg.toggles + 1] IN
          bg' = IF current_state THEN _start_background_listener(toggled)
                                 ELSE toggled
    /\ \E r \in Runners :
          /\ FreeRunner(r)
          /\ runner' = IF is_available
                          THEN [runner EXCEPT ![r] =
                                  [pc |-> "start", words |-> 3, wake |-> 0]]
                          ELSE runner
    /\ UNCHANGED <<now, edge_tts, attrs, pm, hc, imm, tts_playing, cb_pc, cb_last, handled,
                   fastVars, dispVars, plug, hud, v14Vars>>

\* a phrase is spoken: every running listener thread captures it
phrase_spoken ==
    /\ bg.pending = {}
    /\ bg.phrases < MaxPhrases
    /\ bg' = [bg EXCEPT !.phrases = bg.phrases + 1,
                         !.pending = 1..bg.loops, !.handed = 0]
    /\ UNCHANGED <<now, edge_tts, attrs, pm, hc, imm, gateVars, fastVars, dispVars, plug, hud,
                   v14Vars>>

\* the callback of listener thread l for the phrase: returns while
\* tts_service.is_playing(); a recognized non-blank text starts a
\* handle_command thread
loop_callback(l) ==
    /\ l \in bg.pending
    /\ \E result \in {"text", "UnknownValueError"} :
          bg' = [bg EXCEPT !.pending = bg.pending \ {l},
                           !.handed = IF ~is_playing /\ result = "text"
                                         THEN bg.handed + 1 ELSE bg.handed]
    /\ UNCHANGED <<now, edge_tts, attrs, pm, hc, imm, gateVars, fastVars, dispVars, plug, hud,
                   v14Vars>>

\* --------------------------------------------- RoseHUD.handle_command (v30)
\* _handle_help_commands: the texts it answers itself, before the dispatcher
\* is asked
_handle_help_commands(cmd_norm) ==
    \/ cmd_norm \in {<<"h", "e", "l", "p">>,
                     <<"w", "h", "a", "t", " ", "c", "a", "n", " ", "y", "o", "u", " ", "d", "o">>,
                     <<"c", "o", "m", "m", "a", "n", "d", "s">>,
                     <<"s", "e", "t", "u", "p", " ", "g", "u", "i", "d", "e">>}
    \/ /\ Len(cmd_norm) >= 5
       /\ SubSeq(cmd_norm, 1, 5) = <<"h", "e", "l", "p", " ">>

\* the substrings the category handlers after process_voice_input test
\* with "in" and answer by themselves (_handle_voice_commands' old system,
\* _handle_mood_commands, _handle_media_commands,
\* _handle_productivity_commands, _handle_system_commands,
\* _handle_creative_commands)
LegacyKeywords ==
    {<<"h", "e", "l", "l", "o">>,
     <<"h", "i">>,
     <<"h", "e", "y">>,
     <<"s", "e", "t", " ", "p", "e", "r", "s", "o", "n", "a", "l", "i", "t", "y">>,
     <<"s", "h", "o", "w", " ", "m", "y", " ", "m", "o", "o", "d">>,
     <<"m", "o", "o", "d", " ", "c", "h", "a", "r", "t">>,
     <<"m", "o", "o", "d", " ", "t", "e", "m", "p", "e", "r", "a", "t", "u", "r", "e">>,
     <<"p", "l", "a", "y", " ", "m", "u", "s", "i", "c">>,
     <<"s", "p", "o", "t", "i", "f", "y">>,
     <<"v", "o", "l", "u", "m", "e", " ", "u", "p">>,
     <<"i", "n", "c", "r", "e", "a", "s", "e", " ", "v", "o", "l", "u", "m", "e">>,
     <<"v", "o", "l", "u", "m", "e", " ", "d", "o", "w", "n">>,
     <<"d", "e", "c", "r", "e", "a", "s", "e", " ", "v", "o", "l", "u", "m", "e">>,
     <<"r", "e", "m", "i", "n", "d", " ", "m", "e", " ", "t", "o">>,
     <<"o", "p", "e", "n", " ", "b", "r", "o", "w", "s", "e", "r">>,
     <<"o", "p", "e", "n", " ", "b", "r", "a", "v", "e">>,
     <<"o", "p", "e", "n", " ", "c", "h", "r", "o", "m", "e">>,
     <<"w", "o", "r", "d", " ", "c", "l", "o", "u", "d">>}

\* whether one of the category handlers returns True for the text;
\* "speak in" does so only for a language set_language accepts
legacy_handles(cmd_norm, language_ok) ==
    LET in(k) == re_search(k, cmd_norm) = "match" IN
       \/ \E k \in LegacyKeywords : in(k)
       \/ in(<<"p", "l", "a", "y">>) /\ in(<<"y", "o", "u", "t", "u", "b", "e">>)
       \/ in(<<"s", "p", "e", "a", "k", " ", "i", "n">>) /\ language_ok

\* handle_command: a text _handle_help_commands answers returns at once
handle_command_help(text) ==
    /\ _handle_help_commands(strip(lower(Chars[text])))
    /\ Len(hc.routes) < MaxCalls
    /\ hc' = [hc EXCEPT !.routes = Append(hc.routes,
                             [text |-> text, why |-> "help", route |-> "help"])]
    /\ UNCHANGED <<now, edge_tts, attrs, pm, bg, imm, gateVars, fastVars, dispVars, plug, hud,
                   v14Vars>>

\* handle_command: any other text goes to _handle_voice_commands, which
\* calls voice_command_manager.process_voice_input(cmd_norm)
handle_command(t, text) ==
    /\ ~_handle_help_commands(strip(lower(Chars[text])))
    /\ pvi_check(t, text)

\* handle_command after process_voice_input has ended: True returns; an
\* exception ends the thread; False, whatever its reason, goes on to the old
\* matching of _handle_voice_commands and the other category handlers, and
\* when none answers to _handle_ai_response
handle_command_rest ==
    /\ hc.next <= Len(returned)
    /\ LET r == returned[hc.next]
           cmd_norm == strip(lower(Chars[r.text]))
       IN  \E language_ok \in BOOLEAN :
              hc' = [next |-> hc.next + 1,
                     routes |-> Append(hc.routes,
                        [text |-> r.text, why |-> r.why,
                         route |-> CASE r.value = "True" -> "dispatcher"
                                     [] r.value = "raise" -> "raised"
                                     [] r.value = "False" ->
                                          IF legacy_handles(cmd_norm,
                                                            language_ok)
                                             THEN "legacy" ELSE "ai"])]
    /\ UNCHANGED <<now, edge_tts, attrs, pm, bg, imm, gateVars, fastVars, dispVars, plug, hud,
                   v14Vars>>

\* plugin directories at startup
StartupDirs == {<<>>, <<"good_voice">>, <<"init_raises", "good_voice">>}

\* utterances heard during and after startup
StartupTexts == {"demo", "stop music"}

\* -------------------------------------------------- rose_v14_jarvis: speak
Speakers == 1..MaxSpeakers

\* threading.Lock: free, or held by the listener or by a _do thread
Free == <<"free">>

ByListener == <<"listener">>

BySpeaker(s) == <<"speak", s>>

NoSpeaker == [pc |-> "none", edge |-> FALSE]

\* audio is coming out of the speakers: a blocking playback of a _do thread
\* or the external player opened by the fallback
Sounding ==
    {s \in Speakers : sp[s].pc \in {"edge_playing", "pyttsx3_playing"}}
       \cup player

\* speak: threading.Thread(target=_do).start()
v14_speak(s) ==
    /\ sp[s].pc = "none"
    /\ \A q \in Speakers : q < s => sp[q].pc # "none"
    /\ v14_calls.speak < MaxSpeaks
    /\ v14_calls' = [v14_calls EXCEPT !.speak = @ + 1]
    /\ sp' = [sp EXCEPT ![s].pc = "acquire"]
    /\ UNCHANGED <<now, edge_tts, extVars, gateVars, fastVars, dispVars, plug, hud,
                   mic_lock, lis, player>>

\* _do: mic_lock.acquire() (blocking); then the online test
v14_do_acquire(s) ==
    /\ sp[s].pc = "acquire"
    /\ mic_lock = Free
    /\ mic_lock' = BySpeaker(s)
    /\ sp' = [sp EXCEPT ![s].pc = "try_edge"]
    /\ UNCHANGED <<now, edge_tts, extVars, gateVars, fastVars, dispVars, plug, hud,
                   lis, player, v14_calls>>

\* _do: if pref == "edge_then_pyttsx3" and EDGE_TTS_AVAILABLE and online:
\* speak_edge(text) streams and blocks, or fails and returns False
v14_do_edge(s) ==
    /\ sp[s].pc = "try_edge"
    /\ \E r \in {"played", "failed", "other_pref", "no_edge"} :
          sp' = [sp EXCEPT ![s] =
                    [pc |-> IF r = "played" THEN "edge_playing"
                                            ELSE "try_pyttsx3",
                     edge |-> r # "no_edge"]]
    /\ UNCHANGED <<now, edge_tts, extVars, gateVars, fastVars, dispVars, plug, hud,
                   mic_lock, lis, player, v14_calls>>

\* speak_edge: comm.play() has finished
v14_do_edge_done(s) ==
    /\ sp[s].pc = "edge_playing"
    /\ sp' = [sp EXCEPT ![s].pc = "finally"]
    /\ UNCHANGED <<now, edge_tts, extVars, gateVars, fastVars, dispVars, plug, hud,
                   mic_lock, lis, player, v14_calls>>

\* _do: if not used and PYTTSX3_AVAILABLE: speak_pyttsx3(text)
\*      elif not used: the fallback
v14_do_pyttsx3(s) ==
    /\ sp[s].pc = "try_pyttsx3"
    /\ \E r \in {"say", "failed", "unavailable"} :
          sp' = [sp EXCEPT ![s].pc =
                    CASE r = "say"         -> "pyttsx3_playing"
                      [] r = "failed"      -> "finally"
                      [] r = "unavailable" -> "fallback"]
    /\ UNCHANGED <<now, edge_tts, extVars, gateVars, fastVars, dispVars, plug, hud,
                   mic_lock, lis, player, v14_calls>>

\* speak_pyttsx3: engine.runAndWait() has finished
v14_do_pyttsx3_done(s) ==
    /\ sp[s].pc = "pyttsx3_playing"
    /\ sp' = [sp EXCEPT ![s].pc = "finally"]
    /\ UNCHANGED <<now, edge_tts, extVars, gateVars, fastVars, dispVars, plug, hud,
                   mic_lock, lis, player, v14_calls>>

\* _do, last resort: if EDGE_TTS_AVAILABLE and online: save the mp3 and hand
\* it to os.startfile / xdg-open / open, which return while the player plays
v14_do_fallback(s) ==
    /\ sp[s].pc = "fallback"
    /\ \E opened \in BOOLEAN :
          player' = IF sp[s].edge /\ opened THEN player \cup {s} ELSE player
    /\ sp' = [sp EXCEPT ![s].pc = "finally"]
    /\ UNCHANGED <<now, edge_tts, extVars, gateVars, fastVars, dispVars, plug, hud,
                   mic_lock, lis, v14_calls>>

\* _do: finally: if mic_lock.locked(): mic_lock.release()
v14_do_finally(s) ==
    /\ sp[s].pc = "finally"
    /\ mic_lock' = Free
    /\ sp' = [sp EXCEPT ![s] = NoSpeaker]
    /\ UNCHANGED <<now, edge_tts, extVars, gateVars, fastVars, dispVars, plug, hud,
                   lis, player, v14_calls>>

\* the external player reaches the end of the mp3
player_ends(s) ==
    /\ s \in player
    /\ player' = player \ {s}
    /\ UNCHANGED <<now, edge_tts, extVars, gateVars, fastVars, dispVars, plug, hud,
                   mic_lock, lis, sp, v14_calls>>

\* --------------------------------------------- rose_v14_jarvis: Listener
\* a loop that goes on whatever running says
while_true(running) == TRUE

\* Listener.run: while self.running
while_running(running) == running

\* a loop that an exception leaves
cycle_error_ends_loop == "end"

\* Listener.run: the except clauses end with continue
after_cycle_error == "while"

\* Listener.run: the test of the while loop and of self.listening
run_while ==
    /\ lis.pc = "while"
    /\ IF ~while_running(lis.running)
          THEN lis' = [lis EXCEPT !.pc = "end"]
          ELSE IF ~lis.listening
                  THEN lis' = [lis EXCEPT !.pc = "sleep"]
                  ELSE /\ lis.cycles < MaxCycles
                       /\ lis' = [lis EXCEPT !.pc = "lock",
                                             !.cycles = @ + 1]
    /\ UNCHANGED <<now, edge_tts, extVars, gateVars, fastVars, dispVars, plug, hud,
                   mic_lock, sp, player, v14_calls>>

\* Listener.run with the microphone always on and no end of the run: the
\* while test of a listener that is never stopped or muted (v13
\* ListenerThread.run and v14 Listener.run alike)
run_while_always_on ==
    /\ lis.pc = "while"
    /\ while_running(lis.running)
    /\ lis.listening
    /\ lis' = [lis EXCEPT !.pc = "lock"]
    /\ UNCHANGED <<now, edge_tts, extVars, gateVars, fastVars, dispVars, plug,
                   hud, mic_lock, sp, player, v14_calls>>

\* Listener.run: time.sleep(0.3); continue
run_sleep ==
    /\ lis.pc = "sleep"
    /\ lis' = [lis EXCEPT !.pc = "while"]
    /\ UNCHANGED <<now, edge_tts, extVars, gateVars, fastVars, dispVars, plug, hud,
                   mic_lock, sp, player, v14_calls>>

\* Listener.run: with mic_lock: (blocking acquire), then the microphone
run_acquire ==
    /\ lis.pc = "lock"
    /\ mic_lock = Free
    /\ mic_lock' = ByListener
    /\ lis' = [lis EXCEPT !.pc = "capture"]
    /\ UNCHANGED <<now, edge_tts, extVars, gateVars, fastVars, dispVars, plug, hud,
                   sp, player, v14_calls>>

\* Listener.run: sr.Microphone(), adjust_for_ambient_noise, listen; both
\* with blocks are left, with the audio or with an exception
run_capture ==
    /\ lis.pc = "capture"
    /\ mic_lock' = Free
    /\ \E r \in {"audio", "WaitTimeoutError", "OSError"} :
          lis' = [lis EXCEPT !.pc = IF r = "audio" THEN "recognize"
                                                  ELSE after_cycle_error,
                            !.last = r]
    /\ UNCHANGED <<now, edge_tts, extVars, gateVars, fastVars, dispVars, plug, hud,
                   sp, player, v14_calls>>

\* Listener.run: recognize_google(audio); a non-blank text starts a
\* handle_command thread; then the loop continues
run_recognize ==
    /\ lis.pc = "recognize"
    /\ \E r \in {"text", "blank", "UnknownValueError", "RequestError"} :
          lis' = [lis EXCEPT !.pc = IF r \in {"text", "blank"}
                                       THEN "while" ELSE after_cycle_error,
                            !.last = r]
    /\ UNCHANGED <<now, edge_tts, extVars, gateVars, fastVars, dispVars, plug, hud,
                   mic_lock, sp, player, v14_calls>>

\* Listener.stop: self.running = False
v14_stop ==
    /\ lis.running
    /\ lis' = [lis EXCEPT !.running = FALSE]
    /\ UNCHANGED <<now, edge_tts, extVars, gateVars, fastVars, dispVars, plug, hud,
                   mic_lock, sp, player, v14_calls>>

\* HUD._toggle_mic: listening = not listening
_toggle_mic ==
    /\ v14_calls.toggle < MaxToggles
    /\ v14_calls' = [v14_calls EXCEPT !.toggle = @ + 1]
    /\ lis' = [lis EXCEPT !.listening = ~@]
    /\ UNCHANGED <<now, edge_tts, extVars, gateVars, fastVars, dispVars, plug, hud,
                   mic_lock, sp, player>>

\* ------------------------------------------------------------------ time
Tick ==
    /\ now < MaxNow
    /\ now' = now + TickMs
    /\ UNCHANGED <<edge_tts, moreVars, gateVars, fastVars, dispVars>>

\* ---------------------------------------------------------- specification
Init ==
    /\ now = 0
    /\ edge_tts \in BOOLEAN
    /\ tts_playing = FALSE
    /\ runner = [r \in Runners |-> NoRunner]
    /\ cb_pc = "idle"
    /\ cb_last = [saw |-> [tts |-> FALSE, out_tts |-> FALSE,
                            out_fast |-> FALSE], fate |-> "none"]
    /\ handled = {}
    /\ voice_queue = <<>>
    /\ is_speaking = FALSE
    /\ worker = [pc |-> "get", req |-> NoReq]
    /\ enq = [e \in Enqueuers |-> [pc |-> "idle", req |-> NoReq]]
    /\ next_id = 1
    /\ enq_order = <<>>
    /\ hist = <<>>
    /\ commands = DefaultCommands
    /\ custom_commands = <<>>
    /\ is_processing = FALSE
    /\ response_times = <<>>
    /\ disp = [t \in Dispatchers |-> NoCall]
    /\ n_adds = 0
    /\ started = <<>>
    /\ returned = <<>>
    /\ handler_fate = <<>>
    /\ recorded = <<>>
    /\ plug = NoScan
    /\ hud = [pc |-> "new", listener |-> FALSE]
    /\ mic_lock = Free
    /\ lis = [pc |-> "while", running |-> TRUE, listening |-> TRUE,
              cycles |-> 0, last |-> "none"]
    /\ sp = [s \in Speakers |-> NoSpeaker]
    /\ player = {}
    /\ v14_calls = [speak |-> 0, toggle |-> 0]
    /\ bg = NoListeners
    /\ hc = [next |-> 1, routes |-> <<>>]
    /\ imm = NoImmediate
    /\ attrs = [name \in DOMAIN _setup_voice_commands |-> name]
    /\ pm = [plugins |-> {}, plugin_info |-> {}, loaded_plugins |-> <<>>,
             calls |-> 0]

GateNext ==
    \/ \E r \in Runners, w \in {1, MaxWords} : speak(r, w)
    \/ \E r \in Runners : runner_set_playing(r)
    \/ \E r \in Runners : runner_generate(r)
    \/ \E r \in Runners : runner_play(r)
    \/ \E r \in Runners : runner_wake(r)
    \/ \E r \in Runners : runner_clear(r)
    \/ callback_invoke
    \/ callback_recognize
    \/ Tick

SpecGate == Init /\ [][GateNext]_vars

FastNext ==
    \/ \E e \in Enqueuers, cb \in BOOLEAN : fast_speak_build(e, cb)
    \/ \E e \in Enqueuers : fast_speak_put(e)
    \/ worker_get
    \/ worker_check
    \/ worker_generate
    \/ worker_play
    \/ worker_callback
    \/ worker_finish
    \/ Tick

SpecFast == Init /\ [][FastNext]_vars

\* callback, both TTS paths and the clock, one thread of each kind
OutputNext ==
    \/ \E w \in {1, MaxWords} : speak(1, w)
    \/ runner_set_playing(1)
    \/ runner_generate(1)
    \/ runner_play(1)
    \/ runner_wake(1)
    \/ runner_clear(1)
    \/ callback_invoke
    \/ callback_recognize
    \/ fast_speak_build(1, FALSE)
    \/ fast_speak_put(1)
    \/ worker_get
    \/ worker_check
    \/ worker_generate
    \/ worker_play
    \/ worker_callback
    \/ worker_finish
    \/ Tick

SpecOutput == Init /\ [][OutputNext]_vars

WorkerStep ==
    \/ worker_get
    \/ worker_check
    \/ worker_generate
    \/ worker_play
    \/ worker_callback
    \/ worker_finish

\* the worker beside one thread that calls speak
FairNext ==
    \/ \E cb \in BOOLEAN : fast_speak_build(1, cb)
    \/ fast_speak_put(1)
    \/ WorkerStep
    \/ Tick

\* the worker is a thread of its own: whenever it can take a step it
\* eventually does
SpecFastFair == Init /\ [][FairNext]_vars /\ WF_vars(WorkerStep)

\* FastTTSService with one thread calling speak and one calling
\* speak_immediate
ImmediateNext ==
    \/ \E cb \in BOOLEAN : fast_speak_build(1, cb)
    \/ fast_speak_put(1)
    \/ speak_immediate
    \/ _clear_queue
    \/ _stop_current_speech
    \/ immediate_speak
    \/ worker_get
    \/ worker_check
    \/ worker_generate
    \/ worker_play_start
    \/ worker_play_end
    \/ worker_callback
    \/ worker_finish
    \/ Tick

SpecImmediate == Init /\ [][ImmediateNext]_vars

DispatchNext ==
    \/ \E r \in Registrations : add_command(r[1], r[2], r[3])
    \/ \E r \in Registrations : add_custom_command(r[1], r[2], r[3])
    \/ \E t \in Dispatchers, text \in TextPool : pvi_check(t, text)
    \/ \E t \in Dispatchers : pvi_set(t)
    \/ \E t \in Dispatchers : pvi_scan(t)
    \/ \E i \in 1..MaxCalls : i <= Len(handler_fate) /\ handler_thread(i)

DispatchInit == Init /\ edge_tts

SpecDispatch == DispatchInit /\ [][DispatchNext]_vars

MetricsNext ==
    \E sample \in Samples \cup (1..MaxRecorded) : record_response_time(sample)

SpecMetrics == DispatchInit /\ [][MetricsNext]_vars

PluginNext ==
    \/ \E dir \in SeqsUpTo(V14Kinds, MaxModules) : plugin_listdir("v14", dir)
    \/ \E dir \in SeqsUpTo(ManagerKinds, MaxModules) :
          plugin_listdir("manager", dir)
    \/ plugin_load_next
    \/ plugin_scan_end

SpecPlugins == DispatchInit /\ [][PluginNext]_vars

\* the PluginManager under any sequence of its calls
ManagerNext ==
    \/ \E files \in ManagerDirs : manager_load_plugins(files)
    \/ \E name \in {"a", "b"}, kind \in {"good_voice", "init_false"} :
          manager_load_plugin(name, kind)
    \/ \E name \in {"a", "b"}, cleanup_ok \in BOOLEAN :
          unload_plugin(name, cleanup_ok)
    \/ cleanup_all

SpecManager == DispatchInit /\ [][ManagerNext]_vars

StartupNext ==
    \/ hud_start_services
    \/ hud_add_theme_command
    \/ hud_add_speed_command
    \/ \E dir \in StartupDirs : hud_load_plugins(dir)
    \/ plugin_load_next
    \/ plugin_scan_end
    \/ hud_init_done
    \/ \E t \in Dispatchers, text \in StartupTexts :
          listener_process_voice_input(t, text)
    \/ \E t \in Dispatchers : pvi_set(t)
    \/ \E t \in Dispatchers : pvi_scan(t)
    \/ \E i \in 1..MaxCalls : i <= Len(handler_fate) /\ handler_thread(i)

SpecStartup == DispatchInit /\ [][StartupNext]_vars

SpeakerStep ==
    \/ \E s \in Speakers : v14_do_acquire(s)
    \/ \E s \in Speakers : v14_do_edge(s)
    \/ \E s \in Speakers : v14_do_edge_done(s)
    \/ \E s \in Speakers : v14_do_pyttsx3(s)
    \/ \E s \in Speakers : v14_do_pyttsx3_done(s)
    \/ \E s \in Speakers : v14_do_fallback(s)
    \/ \E s \in Speakers : v14_do_finally(s)

ListenerStep ==
    \/ run_while
    \/ run_sleep
    \/ run_acquire
    \/ run_capture
    \/ run_recognize

V14Next ==
    \/ \E s \in Speakers : v14_speak(s)
    \/ SpeakerStep
    \/ \E s \in Speakers : player_ends(s)
    \/ ListenerStep
    \/ v14_stop
    \/ _toggle_mic

SpecV14 == DispatchInit /\ [][V14Next]_vars

\* the listener and the _do threads are threads of their own: each takes
\* its next step whenever it can
SpecV14Fair == SpecV14 /\ WF_vars(ListenerStep) /\ WF_vars(SpeakerStep)

\* the steps of the _do thread of one speak call (v13: _run, which takes
\* the pyttsx3 path)
DoStep(s) ==
    \/ v14_do_acquire(s)
    \/ v14_do_edge(s)
    \/ v14_do_edge_done(s)
    \/ v14_do_pyttsx3(s)
    \/ v14_do_pyttsx3_done(s)
    \/ v14_do_fallback(s)
    \/ v14_do_finally(s)

AlwaysOnStep ==
    \/ run_while_always_on
    \/ run_acquire
    \/ run_capture
    \/ run_recognize

\* speak calls beside a listener that cycles for ever; every thread takes
\* its next step whenever it can from some point on (weak fairness)
AlwaysOnNext ==
    \/ \E s \in Speakers : v14_speak(s)
    \/ \E s \in Speakers : DoStep(s)
    \/ \E s \in Speakers : player_ends(s)
    \/ AlwaysOnStep

SpecAlwaysOn ==
    /\ DispatchInit
    /\ [][AlwaysOnNext]_vars
    /\ WF_vars(AlwaysOnStep)
    /\ \A s \in Speakers : WF_vars(DoStep(s))

\* the dispatcher with the inputs that take every exit of
\* process_voice_input: a match, no match, an invalid pattern, a handler
\* thread that cannot be started or that raises
GuardRegistrations == {<<"(", "handler_a", "NORMAL">>}

GuardTexts == {"stop music", "xyz"}

GuardNext ==
    \/ \E r \in GuardRegistrations : add_custom_command(r[1], r[2], r[3])
    \/ \E t \in Dispatchers, text \in GuardTexts : pvi_check(t, text)
    \/ \E t \in Dispatchers : pvi_set(t)
    \/ \E t \in Dispatchers : pvi_scan(t)
    \/ \E i \in 1..MaxCalls : i <= Len(handler_fate) /\ handler_thread(i)

SpecGuard == DispatchInit /\ [][GuardNext]_vars

\* the dispatcher with entries of different priority registered in both
\* classes after the defaults
PriorityCustom == {<<"music", "handler_a", "NORMAL">>,
                   <<"Hello|stop", "handler_b", "HIGH">>}

PriorityBuiltin == {<<"stop music", "handler_b", "HIGH">>}

PriorityNext ==
    \/ \E r \in PriorityCustom : add_custom_command(r[1], r[2], r[3])
    \/ \E r \in PriorityBuiltin : add_command(r[1], r[2], r[3])
    \/ \E t \in Dispatchers, text \in GuardTexts : pvi_check(t, text)
    \/ \E t \in Dispatchers : pvi_set(t)
    \/ \E t \in Dispatchers : pvi_scan(t)
    \/ \E i \in 1..MaxCalls : i <= Len(handler_fate) /\ handler_thread(i)

SpecPriority == DispatchInit /\ [][PriorityNext]_vars

\* v30 handle_command threads with the default registry
CommandTexts == {"stop music", "xyz", "help"}

CommandNext ==
    \/ \E text \in CommandTexts : handle_command_help(text)
    \/ \E t \in Dispatchers, text \in CommandTexts : handle_command(t, text)
    \/ \E t \in Dispatchers : pvi_set(t)
    \/ \E t \in Dispatchers : pvi_scan(t)
    \/ \E i \in 1..MaxCalls : i <= Len(handler_fate) /\ handler_thread(i)
    \/ handle_command_rest

SpecCommand == DispatchInit /\ [][CommandNext]_vars

\* the v30 window: startup, then the menu's Toggle Voice and phrases spoken
\* to whatever listener threads run
ToggleNext ==
    \/ hud_start_services
    \/ hud_add_theme_command
    \/ hud_add_speed_command
    \/ hud_load_plugins(<<"good_voice">>)
    \/ plugin_load_next
    \/ plugin_scan_end
    \/ hud_init_done
    \/ toggle_voice_feature
    \/ phrase_spoken
    \/ \E l \in 1..(MaxVoiceToggles + 1) : loop_callback(l)
    \/ \E r \in Runners : runner_set_playing(r)
    \/ \E r \in Runners : runner_generate(r)
    \/ \E r \in Runners : runner_play(r)
    \/ \E r \in Runners : runner_wake(r)
    \/ \E r \in Runners : runner_clear(r)
    \/ Tick

SpecToggle == DispatchInit /\ [][ToggleNext]_vars

\* ================================================================= claims

\* C1  Self-hearing suppression: a capture result handed to the listener
\* callback while tts_service.is_playing() is true is discarded; it is never
\* transcribed and no handle_command thread is started for it.
C1_SelfHearingSuppressed ==
    /\ cb_last.saw.tts => cb_last.fate = "discarded"
    /\ \A h \in handled : ~h.tts_at_invoke

\* a result arrived while the flag was set and was discarded
C1_Witness == cb_last.saw.tts /\ cb_last.fate = "discarded"

\* C2  A recognized-but-late utterance is still discarded: no
\* handle_command thread is started at a moment when tts_playing is true,
\* also when the flag was set after the callback had begun.
C2_NoDispatchWhilePlaying == \A h \in handled : ~h.tts_at_start

\* C3  The gate covers the full speaking span: tts_playing is true while
\* any speak request is between the start of its synthesis and the end of
\* its estimated playback duration plus settle margin.
C3_GateCoversSpan == \A r \in Runners : InSpan(r) => tts_playing

\* C4  One process-wide gate: whenever spoken output is in progress, started
\* through tts_service.speak or through fast_tts.speak, a capture result
\* handed to the listener callback is discarded.
C4_OneGate ==
    (cb_last.saw.out_tts \/ cb_last.saw.out_fast)
        => cb_last.fate = "discarded"

\* C5  Spoken output is serialized: at most one tts_service.speak request is
\* inside its synthesize/play/hold span at any time.
C5_OutputSerialized == Cardinality({r \in Runners : InSpan(r)}) <= 1

\* C6  FIFO playback: the worker takes the requests in exactly the order in
\* which voice_queue.put received them, and when is_speaking is set to true
\* for a request it has been set back to false for every earlier one.
C6_FifoPlayback ==
    /\ Len(hist) <= Len(enq_order)
    /\ \A i \in 1..Len(hist) :
          /\ hist[i].id = enq_order[i]
          /\ hist[i].fate # "dropped" => ~hist[i].gate_before
          /\ i < Len(hist) => hist[i].fate \in {"dropped", "done"}

\* two requests, put in the opposite order of their construction, both played
C6_Witness ==
    /\ enq_order = <<2, 1>>
    /\ Len(hist) = 2
    /\ hist[1].fate = "done"
    /\ hist[2].fate = "done"

\* C7  Staleness drop: a request older than 5 seconds when the worker tests
\* it is dropped, with no synthesis, no playback and is_speaking untouched,
\* and the worker goes on with the next request; a request of at most
\* 5 seconds is processed.
C7_StalenessDrop ==
    /\ \A i \in 1..Len(hist) :
          IF hist[i].late
             THEN hist[i].fate = "dropped" /\ hist[i].stages = <<>>
             ELSE hist[i].fate \in {"speaking", "done"}
    /\ worker.pc \in {"get", "check"} => ~is_speaking
    /\ (hist # <<>> /\ hist[Len(hist)].fate = "dropped")
          => worker.pc \in {"get", "check"}

\* a stale request was dropped and the next request was played
C7_Witness ==
    /\ Len(hist) = 2
    /\ hist[1].late
    /\ hist[1].fate = "dropped"
    /\ hist[2].fate = "done"
    /\ "play" \in {hist[2].stages[k] : k \in 1..Len(hist[2].stages)}

Queued == {voice_queue[k].id : k \in 1..Len(voice_queue)}

Settled == {hist[k].id : k \in {j \in 1..Len(hist) :
                                   hist[j].fate \in {"dropped", "done"}}}

\* C8  Failure isolation: a failure of synthesis, playback or the completion
\* callback does not end the worker thread, is_speaking is false again when
\* the worker is back at the top of its loop, and every request in the queue
\* is still taken and handled.
C8_FailureIsolation ==
    /\ [](/\ worker.pc \in {"get", "check", "generate", "play", "callback",
                            "finish"}
          /\ worker.pc = "get" => ~is_speaking
          /\ \A i \in 1..Len(hist) :
                (hist[i].failed /\ i < Len(hist)) => hist[i].fate = "done")
    /\ \A id \in 1..MaxReq : (id \in Queued) ~> (id \in Settled)

\* a request failed and a request queued behind it was played
C8_Witness ==
    /\ Len(hist) = 2
    /\ hist[1].failed
    /\ hist[2].fate = "done"
    /\ ~hist[2].failed

\* --- dispatch claims: what one scan step of process_voice_input did
ScanStep(t) == disp[t].pc = "scan" /\ disp'[t].pc = "idle"

\* the text as the scan sees it
Heard(t) == strip(lower(Chars[disp[t].text]))

\* handler threads started by the step
NewlyStarted == SubSeq(started', Len(started) + 1, Len(started'))

\* an entry matches a text when one of its alternatives is found in it
Matches(entry, text) ==
    LET alts == split(Chars[entry.pattern]) IN
       \E k \in 1..Len(alts) : re_search(strip(alts[k]), text) = "match"

Matching(reg, text) == {i \in 1..Len(reg) : Matches(reg[i], text)}

First(S) == CHOOSE i \in S : \A j \in S : i <= j

\* the first matching entry in scan order: custom entries, then built-in
Winner(text) ==
    LET cm == Matching(custom_commands, text)
        bm == Matching(commands, text)
    IN  IF cm # {}
           THEN [class |-> "custom",
                 pattern |-> custom_commands[First(cm)].pattern,
                 handler |-> custom_commands[First(cm)].handler]
           ELSE [class |-> "builtin",
                 pattern |-> commands[First(bm)].pattern,
                 handler |-> commands[First(bm)].handler]

TwoOfAClass(text) ==
    \/ Cardinality(Matching(custom_commands, text)) >= 2
    \/ Cardinality(Matching(commands, text)) >= 2

\* C9  First-match-wins: an accepted call whose text matches two or more
\* entries of one class starts exactly one handler thread, that of the
\* earliest matching entry, and no handler of a later matching entry.
C9_ExactlyOneFirstMatch ==
    [][\A t \in Dispatchers :
          (ScanStep(t) /\ TwoOfAClass(Heard(t)))
             => NewlyStarted = <<Winner(Heard(t))>>]_vars

\* C10  Custom precedence: an accepted call whose text matches a custom
\* entry and a built-in entry starts the handler of the first matching
\* custom entry and no built-in handler, whatever the registration order.
C10_CustomPrecedence ==
    [][\A t \in Dispatchers :
          (/\ ScanStep(t)
           /\ Matching(custom_commands, Heard(t)) # {}
           /\ Matching(commands, Heard(t)) # {})
             => /\ NewlyStarted # <<>>
                /\ \A k \in 1..Len(NewlyStarted) :
                      /\ NewlyStarted[k].class = "custom"
                      /\ NewlyStarted[k].pattern =
                            custom_commands[First(Matching(custom_commands,
                                                           Heard(t)))].pattern
                      /\ NewlyStarted[k].handler =
                            custom_commands[First(Matching(custom_commands,
                                                           Heard(t)))].handler]_vars

\* threads that are past the is_processing test of process_voice_input
PastGuard == {t \in Dispatchers : disp[t].pc \in {"set", "scan"}}

\* C11  Guard release: every accepted process_voice_input call leaves
\* is_processing false when it returns or raises (match, no match, invalid
\* regex, handler thread not started); a handler thread that raises later
\* does not hold the guard: is_processing is true only while some call is
\* inside its try block, so a call made when none is in progress is accepted.
C11_GuardRelease ==
    /\ [](is_processing => \E t \in Dispatchers : disp[t].pc = "scan")
    /\ [][\A t \in Dispatchers : ScanStep(t) => ~is_processing']_vars
    /\ [][\A t \in Dispatchers :
             (/\ disp[t].pc = "idle" /\ disp'[t].pc = "idle"
              /\ Len(returned') > Len(returned)
              /\ returned'[Len(returned')].why = "rejected")
                => PastGuard # {}]_vars

\* the first call started a handler that raised, the guard is clear and the
\* next call was accepted and ran to its end
C11_Witness ==
    /\ Len(returned) = 2
    /\ returned[1].why = "started"
    /\ handler_fate = <<"raised">>
    /\ returned[2].why \in {"no match", "re.error", "thread error"}
    /\ ~is_processing

\* C12  Overlapping dispatch is rejected: in no interleaving are two calls
\* on the same manager past the is_processing guard at the same time.
C12_OneCallPastGuard == Cardinality(PastGuard) <= 1

\* C13  Every accepted dispatch attempt records exactly one latency sample,
\* whether or not an entry matched.
C13_OneSamplePerAttempt ==
    [][\A t \in Dispatchers :
          ScanStep(t) =>
             /\ Len(recorded') = Len(recorded) + 1
             /\ response_times' =
                   _record_response_time(response_times,
                                         recorded'[Len(recorded')])]_vars

Min(a, b) == IF a <= b THEN a ELSE b

\* the most recent min(n, 100) of the n samples recorded so far
MostRecent ==
    LET n == Len(recorded) IN SubSeq(recorded, n - Min(n, RespCap) + 1, n)

\* C14  Metrics bound: after n recorded latencies response_times holds
\* exactly the most recent min(n, 100) samples in recording order, never
\* more than 100, and get_average_response_time is their arithmetic mean,
\* or 0 when nothing has been recorded.
C14_MetricsBound ==
    LET avg == get_average_response_time(response_times) IN
       /\ response_times = MostRecent
       /\ Len(response_times) <= RespCap
       /\ IF recorded = <<>>
             THEN avg.num = 0
             ELSE avg.num * Len(MostRecent) = sum(MostRecent) * avg.den

\* more than 100 latencies were recorded and the oldest ones are gone
C14_Witness ==
    /\ Len(recorded) > RespCap + MaxFree
    /\ Len(response_times) = RespCap
    /\ response_times[1] # recorded[1]
    /\ response_times[RespCap] = recorded[Len(recorded)]

\* a candidate that loads when it is the only file of the directory
LoadsAlone(kind) == kind \in {"good", "good_voice", "good_other"}

\* a candidate the scan has to look at (a .py file)
Candidate(kind) == kind # "not_py"

\* C15  Plugin failure isolation: in a load_plugins scan a module that fails
\* to import, has no entry point or raises during registration or
\* initialization is skipped; every other candidate is still attempted and,
\* if valid, loaded; load_plugins never raises because of a bad module.
C15_PluginIsolation ==
    LET seen == 1..(plug.i - 1) IN
       /\ plug.phase # "raised"
       /\ plug.phase \in {"scanning", "done"} =>
             /\ plug.attempted = {k \in seen : Candidate(plug.dir[k])}
             /\ {plug.loaded[k] : k \in 1..Len(plug.loaded)}
                   = {k \in seen : LoadsAlone(plug.dir[k])}
       /\ plug.phase = "done" => plug.i = Len(plug.dir) + 1

\* a scan that met a raising module first went on and loaded a later one
C15_Witness ==
    /\ plug.phase = "done"
    /\ Len(plug.dir) >= 2
    /\ plug.dir[1] \in {"import_raises", "register_raises", "init_raises",
                        "ctor_raises"}
    /\ plug.loaded # <<>>

\* a voice-command plugin was loaded by the startup scan
VoicePluginLoaded ==
    \E k \in 1..Len(plug.loaded) : plug.dir[plug.loaded[k]] = "good_voice"

\* C16  Plugin contributions reach the dispatcher: when RoseHUD.__init__ has
\* finished, every voice command of a successfully loaded voice-command
\* plugin is an entry of custom_commands, and an utterance matching its
\* pattern is dispatched to the plugin's handler.
C16_PluginCommandsRegistered ==
    /\ (hud.pc = "done" /\ VoicePluginLoaded)
          => \E k \in 1..Len(custom_commands) :
                /\ custom_commands[k].pattern = PluginCommand.pattern
                /\ custom_commands[k].handler = PluginCommand.handler
    /\ \A k \in 1..Len(returned) :
          (hud.pc = "done" /\ VoicePluginLoaded /\ returned[k].text = "demo")
             => returned[k].why # "no match"

\* every add_custom_command of the startup has been made and the plugin
\* scan is over
RegistryComplete ==
    \/ hud.pc = "done"
    \/ hud.pc = "load_plugins" /\ plug.phase = "done"

\* C17  Startup ordering: every registry mutation of the startup has
\* completed before the background listener is started, so no
\* process_voice_input call of the listener runs before or during one.
C17_ListenerAfterRegistration ==
    /\ hud.listener => RegistryComplete
    /\ CallsBegun > 0 => RegistryComplete

\* C18  Lock-backed gate in v14: microphone capture and speech playback
\* never overlap; the listener holds mic_lock while the microphone is open,
\* a speak thread holds it from before its output starts until the output
\* has ended on every TTS path, and only the holder releases it.
C18_CaptureNeverOverlapsPlayback ==
    /\ lis.pc = "capture" => mic_lock = ByListener
    /\ \A s \in Speakers :
          /\ sp[s].pc \in {"try_edge", "edge_playing", "try_pyttsx3",
                           "pyttsx3_playing", "fallback", "finally"}
                => mic_lock = BySpeaker(s)
          /\ s \in Sounding => mic_lock = BySpeaker(s)
    /\ ~(lis.pc = "capture" /\ Sounding # {})

ErrorOutcomes == {"WaitTimeoutError", "OSError", "UnknownValueError",
                  "RequestError"}

\* C19  Listener loop resilience in v14: after a no-speech result, a
\* recognition service error, a capture timeout or any other exception the
\* loop is back at its top; it is in its terminal state only after stop()
\* has set running to false.
C19_LoopResilience ==
    /\ [](lis.pc = "end" => ~lis.running)
    /\ [][(/\ lis.pc \in {"capture", "recognize"}
            /\ lis'.pc # lis.pc
            /\ lis'.last \in ErrorOutcomes) => lis'.pc = "while"]_vars

\* the loop went through a failed cycle and began another capture
C19_Witness ==
    /\ lis.last \in ErrorOutcomes
    /\ lis.cycles = 2
    /\ lis.pc = "capture"
    /\ lis.running

\* C20  stop() is non-blocking and effective: stop() can be called and
\* returns whatever the loop is doing; once running is false the loop starts
\* no new capture cycle at its next check and eventually terminates.
C20_StopEffective ==
    /\ [](lis.running => ENABLED v14_stop)
    /\ [][(~lis.running /\ lis.pc = "while") => lis'.pc \in {"while", "end"}]_vars
    /\ (~lis.running) ~> (lis.pc = "end")

\* the loop captured and transcribed, stop() was called, the loop has ended
C20_Witness ==
    /\ lis.pc = "end"
    /\ ~lis.running
    /\ lis.last = "text"
    /\ lis.cycles = 1

\* C21  In v30 at most one listener loop is active at any time, after startup
\* and after any sequence of toggle_voice_feature calls, and each recognized
\* phrase is handed to handle_command at most once.
C21_OneListenerLoop ==
    /\ bg.loops <= 1
    /\ bg.handed <= 1

\* voice was toggled off and on again and a phrase was handled
C21_Witness ==
    /\ bg.toggles >= 2
    /\ bg.enable_voice
    /\ bg.handed >= 1

\* a registry with the priority of every entry erased: two registries
\* differ in nothing but priorities exactly when their erasures are equal
Erased(reg) == [i \in 1..Len(reg) |-> [reg[i] EXCEPT !.priority = "NORMAL"]]

\* C22  Priority does not influence matching: what a scan of
\* process_voice_input finds, the handler it starts and the value it returns
\* are those of the registry with all priorities erased, so registries that
\* differ only in priorities behave alike; the entry found is the earliest
\* matching one of its class, also when a later matching one is HIGH.
C22_PriorityIgnored ==
    [][\A t \in Dispatchers :
          ScanStep(t) =>
             LET found == lookup(custom_commands, commands, Heard(t))
                 plain == lookup(Erased(custom_commands), Erased(commands),
                                 Heard(t))
                 reg == IF plain.class = "custom" THEN custom_commands
                                                  ELSE commands
             IN  /\ found = plain
                 /\ \A k \in 1..Len(NewlyStarted) :
                       /\ plain.kind = "hit"
                       /\ NewlyStarted[k].class = plain.class
                       /\ NewlyStarted[k].handler = reg[plain.index].handler
                 /\ plain.kind = "hit" =>
                       \A j \in 1..(plain.index - 1) :
                          ~Matches(reg[j], Heard(t))
                 /\ returned'[Len(returned')].value =
                       (CASE plain.kind = "hit" -> "True"
                          [] plain.kind = "miss" -> "False"
                          [] plain.kind = "raise" -> "raise")]_vars

\* the NORMAL entry registered first was started although a HIGH entry
\* registered after it matches the same text
C22_Witness ==
    /\ Len(custom_commands) = 2
    /\ custom_commands[1].priority = "NORMAL"
    /\ custom_commands[2].priority = "HIGH"
    /\ Matches(custom_commands[2], strip(lower(Chars["stop music"])))
    /\ \E k \in 1..Len(started) :
          /\ started[k].class = "custom"
          /\ started[k].handler = custom_commands[1].handler
          /\ returned[Len(returned)].text = "stop music"

\* C23  A rejected dispatch is not treated as unhandled: handle_command
\* does not go on to the old matching or to the conversational fallback
\* when process_voice_input returned False because of the is_processing
\* guard, and the fallback responder is invoked only for an utterance that
\* no registry entry matches.
C23_RejectedNotUnhandled ==
    \A k \in 1..Len(hc.routes) :
       LET r == hc.routes[k]
           cmd_norm == strip(lower(Chars[r.text]))
       IN  /\ r.why = "rejected" => r.route \notin {"legacy", "ai"}
           /\ r.route = "ai" =>
                 /\ Matching(custom_commands, cmd_norm) = {}
                 /\ Matching(commands, cmd_norm) = {}

\* an utterance that matched nothing reached the fallback responder
C23_Witness ==
    \E k \in 1..Len(hc.routes) :
       hc.routes[k].why = "no match" /\ hc.routes[k].route = "ai"

\* how often a stage occurs in the stages of a request
Count(stages, stage) ==
    Cardinality({k \in 1..Len(stages) : stages[k] = stage})

\* C24  Completion callback protocol: when the worker is done with a
\* request, its callback, if present, has been invoked exactly once, as the
\* last stage after synthesis and playback, also when synthesis gave no
\* audio, and is_speaking is still true; without a callback none is invoked;
\* a request dropped as stale has no stage at all, and a request removed by
\* speak_immediate is never taken by the worker.
C24_CallbackProtocol ==
    /\ [][(worker.pc = "finish" /\ worker'.pc = "get") =>
             LET stages == hist[Len(hist)].stages IN
                /\ is_speaking
                /\ Count(stages, "callback") =
                      (IF worker.req.callback THEN 1 ELSE 0)
                /\ Count(stages, "generate") = 1
                /\ worker.req.callback =>
                      /\ stages[Len(stages)] = "callback"
                      /\ stages[1] = "generate"]_vars
    /\ [](\A k \in 1..Len(hist) :
             /\ hist[k].fate = "dropped" => hist[k].stages = <<>>
             /\ hist[k].id \notin imm.cleared)

\* a request with a callback whose synthesis failed is finished, one was
\* dropped as stale or removed by speak_immediate
C24_Witness ==
    /\ imm.cleared # {}
    /\ \E k \in 1..Len(hist) :
          /\ hist[k].fate = "done"
          /\ hist[k].failed
          /\ hist[k].stages = <<"generate", "callback">>

\* C25  speak_immediate preempts: once speak_immediate(t) has returned no
\* request enqueued before the call is in the queue or is playing, and the
\* first request the worker takes afterwards is t.
C25_Preempts ==
    imm.pc = "returned" =>
       /\ \A k \in 1..Len(voice_queue) : voice_queue[k].id \notin imm.before
       /\ ~(worker.pc = "playing" /\ worker.req.id \in imm.before)
       /\ Len(hist) > imm.mark => hist[imm.mark + 1].id = imm.t

\* speak_immediate returned after it had removed a pending request
C25_Witness ==
    /\ imm.pc = "returned"
    /\ imm.cleared # {}

\* the phrases that are trigger alternatives of an entry, as heard
Triggers(entry) ==
    LET alts == split(Chars[entry.pattern]) IN
       {strip(lower(alts[k])) : k \in 1..Len(alts)}

\* C26  Every built-in command is reachable through its own triggers: with
\* the default registry and no custom entries, a dispatch of the exact
\* phrase of a trigger alternative of a built-in entry finds that entry and
\* starts its handler, not that of an entry registered earlier.
C26_TriggersReachable ==
    [][\A t \in Dispatchers :
          (ScanStep(t) /\ custom_commands = <<>> /\ commands = DefaultCommands)
             => \A i \in 1..Len(commands) :
                   Heard(t) \in Triggers(commands[i]) =>
                      /\ lookup(custom_commands, commands, Heard(t)) =
                            [class |-> "builtin", kind |-> "hit", index |-> i]
                      /\ \A k \in 1..Len(NewlyStarted) :
                            NewlyStarted[k].handler = commands[i].handler]_vars

\* the trigger "hello" started the greeting handler
C26_Witness ==
    /\ custom_commands = <<>>
    /\ started # <<>>
    /\ started[Len(started)].handler = "_handle_greeting"

\* C27  Handler connection in v30: after _setup_voice_commands has run, a
\* built-in system or media entry that the dispatcher finds starts the
\* application method assigned to the attribute of its handler's name, not
\* the method captured when the default commands were registered.
C27_HandlersConnected ==
    [][\A t \in Dispatchers :
          (ScanStep(t) /\ hud.pc \notin {"new", "setup_voice_commands"})
             => \A k \in 1..Len(NewlyStarted) :
                   (/\ NewlyStarted[k].class = "builtin"
                    /\ NewlyStarted[k].handler \in DOMAIN attrs)
                      => NewlyStarted[k].handler =
                            attrs[NewlyStarted[k].handler]]_vars

\* after the setup an utterance started a built-in media handler
C27_Witness ==
    /\ attrs = _setup_voice_commands
    /\ \E k \in 1..Len(started) :
          started[k].class = "builtin" /\ started[k].handler \in DOMAIN attrs

\* C28  is_busy is accurate: while a request is in the queue, or is in the
\* worker's hand and has neither been dropped nor finished playing,
\* is_busy() returns true, so that wait_until_done does not return early.
C28_IsBusyAccurate ==
    (\/ voice_queue # <<>>
     \/ worker.pc \in {"check", "generate", "play", "playing"}) => is_busy

\* is_busy is true for a request that is being played from an empty queue
C28_Witness ==
    /\ worker.pc = "play"
    /\ voice_queue = <<>>
    /\ is_busy

\* C29  Speech is not starved by the listener: beside a listener that keeps
\* cycling, every speak thread that waits for mic_lock acquires it in the
\* end, under weak fairness of the threads.
C29_SpeechNotStarved ==
    \A s \in Speakers :
       (sp[s].pc = "acquire") ~> (mic_lock = BySpeaker(s))

\* a speak thread plays while the listener has been through a capture
C29_Witness ==
    /\ lis.last # "none"
    /\ \E s \in Speakers : sp[s].pc = "pyttsx3_playing"

\* the names that occur in loaded_plugins
Listed == {pm.loaded_plugins[k] : k \in 1..Len(pm.loaded_plugins)}

\* C30  PluginManager bookkeeping stays consistent: plugins, plugin_info
\* and loaded_plugins hold the same names, and no name is twice in
\* loaded_plugins.
C30_BookkeepingConsistent ==
    /\ pm.plugins = pm.plugin_info
    /\ pm.plugins = Listed
    /\ Cardinality(Listed) = Len(pm.loaded_plugins)

\* two plugins were loaded and one of them was unloaded again
C30_Witness ==
    /\ pm.calls >= 3
    /\ pm.plugins = {"b"}
    /\ pm.plugin_info = {"b"}
    /\ pm.loaded_plugins = <<"b">>
====
